---- MODULE Spec2Model ----
(***************************************************************************)
(* Telemedicine booking backend: the request handlers of the slot,         *)
(* consultation and prescription controllers as processes over the tables  *)
(* of the remote store.  Every store call (an await) is one atomic step;   *)
(* the code between two awaits runs with the step that precedes it.        *)
(* Store calls answer; a call fails only for the reasons the data gives    *)
(* (no row, several rows, a key that is no column of the table).  A part   *)
(* of a request's body is drawn at the step that first uses it.            *)
(***************************************************************************)
EXTENDS Integers, FiniteSets, Sequences, TLC

(* ------------------------------ bounds -------------------------------- *)
MaxSlots == 2
MaxTime == 2
MaxCons == 2
MaxRx == 2
MaxMeds == 3
MaxItems == 2
MaxUsers == 2
MaxDoctors == 3
MaxIssues == 2

Reqs == {"r1", "r2"}
Times == 0..MaxTime
Dates == {1, 2}
SlotIds == 1..MaxSlots
ConsIds == 1..MaxCons
MedIds == 1..MaxMeds

(* ------------------------------- types -------------------------------- *)
UserRole == {"user", "doctor", "admin"}
AvailabilityStatus == {"available", "booked", "blocked"}
ConsultationStatus == {"scheduled", "ongoing", "completed", "cancelled", "no_show"}

UserIds == {"p1", "p2", "ud1", "ud2", "adm"}
\* the callers of the slot routes: a patient, the two doctors, the admin
SlotCallers == {"p1", "ud1", "ud2", "adm"}
DoctorIds == {"d1", "d2"}

VARIABLES
  ausers,               \* rows {id, role, is_active}, with email and password_hash
                        \* on the auth routes
  userSeq,              \* ids given out for ausers by register
  aprofiles,            \* rows {user_id}
  adoctors,             \* rows {id, user_id}
  aavailability_slots,  \* rows {id, doctor_id, slot_date, start_time, end_time, status}
  slotSeq,              \* ids given out for aavailability_slots (ids are never reused)
  aconsultations,       \* rows {id, patient_id, doctor_id, slot_id, status}
  consSeq,              \* ids given out for aconsultations
  apayments,            \* rows {consultation_id, status}
  aprescriptions,       \* rows {id, consultation_id, doctor_id, patient_id}
  rxSeq,                \* ids given out for aprescriptions
  aprescription_items,  \* rows {prescription_id, n, medicine_id}, n the position
  amedicines,           \* rows {id, in_stock}, with name on the catalog routes
  medSeq,               \* ids given out for amedicines
  now,                  \* the clock, in the unit of Times
  req,                  \* per request in flight: handler, position, locals
  res                   \* the response sent by the last step, NoRes if none

vars == <<ausers, userSeq, aprofiles, adoctors, aavailability_slots, slotSeq,
          aconsultations, consSeq, apayments, aprescriptions, rxSeq,
          aprescription_items, amedicines, medSeq, now, req, res>>

idTables == <<ausers, userSeq, aprofiles, adoctors>>
slotTables == <<aavailability_slots, slotSeq>>
consTables == <<aconsultations, consSeq, apayments>>
rxTables == <<aprescriptions, rxSeq, aprescription_items, amedicines, medSeq>>

Idle == [op |-> "none", pc |-> "idle"]
NoRes == [op |-> "none", status |-> 0]
Nothing == <<>>

(* ------------------------------ the store ----------------------------- *)
\* .eq('id', id): the rows of a table with that id (at most one).
ById(table, id) == {x \in table : x.id = id}

\* the columns of the tables that handlers update with a request body
SlotColumns ==
  {"id", "doctor_id", "slot_date", "start_time", "end_time", "status",
   "created_by", "created_at", "updated_at"}
ConsultationColumns ==
  {"id", "patient_id", "doctor_id", "slot_id", "consultation_date", "start_time",
   "end_time", "status", "chief_complaint", "diagnosis", "notes", "meeting_link",
   "actual_start_time", "actual_end_time", "created_at", "updated_at"}

\* .update(values): the store refuses a key that is no column of the table.
KnownColumns(columns, values) == DOMAIN values \subseteq columns

\* the columns of a row that the model keeps take the values given for them
Patch(row, values) ==
  [c \in DOMAIN row |-> IF c \in DOMAIN values THEN values[c] ELSE row[c]]

UpdateById(table, id, values) ==
  {IF x.id = id THEN Patch(x, values) ELSE x : x \in table}

(* ----------------------------- middleware ----------------------------- *)
\* authenticate: the token names user u; the row is loaded again.
authenticate_mut(u) == IF ById(ausers, u) = {} THEN 401 ELSE 0
authenticate(u) ==
  LET rows == ById(ausers, u)
  IN IF rows = {} THEN 401
     ELSE IF ~(CHOOSE x \in rows : TRUE).is_active THEN 403
     ELSE 0

RoleOf(u) == (CHOOSE x \in ById(ausers, u) : TRUE).role

\* authorize(...allowedRoles), run after authenticate.
authorize(u, allowedRoles) == IF RoleOf(u) \in allowedRoles THEN 0 ELSE 403

Gate(u, allowedRoles) ==
  IF authenticate(u) # 0 THEN authenticate(u) ELSE authorize(u, allowedRoles)

\* from('adoctors').select('id').eq('user_id', u)
DoctorOfUser(u) == {d \in adoctors : d.user_id = u}

\* the adoctors(user_id) embedded in a slot or consultation row
DoctorUserId(doctorId) ==
  LET rows == ById(adoctors, doctorId)
  IN IF rows = {} THEN "none" ELSE (CHOOSE d \in rows : TRUE).user_id

\* res.status(code).json(...): the request ends
Respond(r, op, code, what) ==
  /\ req' = [req EXCEPT ![r] = Idle]
  /\ res' = [op |-> op, status |-> code, what |-> what]

\* the response of the last step reaches its client before the next step runs
deliver ==
  /\ res # NoRes
  /\ res' = NoRes
  /\ UNCHANGED <<idTables, slotTables, consTables, rxTables, now, req>>

\* request r is at position pc and may take its next step
Ready(r, pc) == res = NoRes /\ req[r].pc = pc

Continue(r, rec) ==
  /\ req' = [req EXCEPT ![r] = rec]
  /\ res' = NoRes

(* ------------------------------ createSlot ---------------------------- *)
\* createSlotSchema: the refine of the two times
createSlotSchema_mut(body) == TRUE
createSlotSchema(body) == body.endTime > body.startTime

\* the overlap query of createSlot
existingSlots(doctorId, body) ==
  {s \in aavailability_slots :
     /\ s.doctor_id = doctorId
     /\ s.slot_date = body.slotDate
     /\ s.start_time <= body.endTime
     /\ s.end_time >= body.startTime}

\* the bodies that pass the refine, and one per date that does not
CreateSlotBodies ==
  {b \in [slotDate : Dates, startTime : Times, endTime : Times] :
     b.startTime < b.endTime \/ (b.startTime = 0 /\ b.endTime = 0)}

InsertsPending == Cardinality({q \in Reqs : req[q].pc = "createSlot_insert"})
BookingsPending == Cardinality({q \in Reqs : req[q].pc = "book_insert"})

createSlot_check(r) ==
  /\ Ready(r, "idle")
  /\ \E u \in SlotCallers, body \in CreateSlotBodies :
       LET gate == Gate(u, {"doctor", "admin"})
           doctor == DoctorOfUser(u)
       IN IF gate # 0 THEN Respond(r, "createSlot", gate, Nothing)
          ELSE IF ~createSlotSchema(body) THEN Respond(r, "createSlot", 400, Nothing)
          ELSE IF Cardinality(doctor) # 1 THEN Respond(r, "createSlot", 404, Nothing)
          ELSE LET d == CHOOSE x \in doctor : TRUE
               IN IF existingSlots(d.id, body) # {}
                  THEN Respond(r, "createSlot", 409, [doctor |-> d.id, body |-> body])
                  ELSE /\ slotSeq + InsertsPending < MaxSlots
                       /\ Continue(r, [op |-> "createSlot", pc |-> "createSlot_insert",
                                       body |-> body, doctor |-> d.id])
  /\ UNCHANGED <<idTables, slotTables, consTables, rxTables, now>>

NewSlot(id, doctorId, body) ==
  [id |-> id, doctor_id |-> doctorId, slot_date |-> body.slotDate,
   start_time |-> body.startTime, end_time |-> body.endTime, status |-> "available"]

createSlot_insert_mut(r) ==
  /\ Ready(r, "createSlot_insert")
  /\ IF existingSlots(req[r].doctor, req[r].body) # {}
     THEN /\ Respond(r, "createSlot", 409, [doctor |-> req[r].doctor, body |-> req[r].body])
          /\ UNCHANGED slotTables
     ELSE /\ slotSeq' = slotSeq + 1
          /\ aavailability_slots' =
               aavailability_slots \cup {NewSlot(slotSeq + 1, req[r].doctor, req[r].body)}
          /\ Respond(r, "createSlot", 201, [id |-> slotSeq + 1])
  /\ UNCHANGED <<idTables, consTables, rxTables, now>>

createSlot_insert(r) ==
  /\ Ready(r, "createSlot_insert")
  /\ slotSeq' = slotSeq + 1
  /\ aavailability_slots' =
       aavailability_slots \cup {NewSlot(slotSeq + 1, req[r].doctor, req[r].body)}
  /\ Respond(r, "createSlot", 201, [id |-> slotSeq + 1])
  /\ UNCHANGED <<idTables, consTables, rxTables, now>>

(* ------------------------------ updateSlot ---------------------------- *)
\* updateSlotSchema: every key optional; the keys are passed to update() as they are
UpdateSlotBodies ==
  {[status |-> s] : s \in AvailabilityStatus}
    \cup {[slotDate |-> 2, startTime |-> 0, endTime |-> 0]}

\* The body is parsed before the load and first used by the update: the model
\* draws it there, so a request between its two store calls holds only the id.
updateSlot_load(r) ==
  /\ Ready(r, "idle")
  /\ \E u \in SlotCallers, slotId \in SlotIds :
       LET gate == Gate(u, {"doctor", "admin"})
           slot == ById(aavailability_slots, slotId)
       IN IF gate # 0 THEN Respond(r, "updateSlot", gate, Nothing)
          ELSE IF slot = {} THEN Respond(r, "updateSlot", 404, Nothing)
          ELSE IF /\ RoleOf(u) = "doctor"
                  /\ DoctorUserId((CHOOSE s \in slot : TRUE).doctor_id) # u
               THEN Respond(r, "updateSlot", 403, [slotId |-> slotId, user |-> u])
          ELSE Continue(r, [op |-> "updateSlot", pc |-> "updateSlot_write",
                            slotId |-> slotId])
  /\ UNCHANGED <<idTables, slotTables, consTables, rxTables, now>>

updateSlot_write(r) ==
  /\ Ready(r, "updateSlot_write")
  /\ \E body \in UpdateSlotBodies :
       LET slot == ById(aavailability_slots, req[r].slotId)
           ok == slot # {} /\ KnownColumns(SlotColumns, body)
       IN /\ aavailability_slots' =
               IF ok THEN UpdateById(aavailability_slots, req[r].slotId, body)
               ELSE aavailability_slots
          /\ Respond(r, "updateSlot", IF ok THEN 200 ELSE 500,
                     [slotId |-> req[r].slotId, body |-> body])
  /\ UNCHANGED <<idTables, slotSeq, consTables, rxTables, now>>

(* ------------------------------ deleteSlot ---------------------------- *)
\* slot.status === 'booked'
AlreadyBooked_mut(slot) == FALSE
AlreadyBooked(slot) == slot.status = "booked"

deleteSlot_load(r) ==
  /\ Ready(r, "idle")
  /\ \E u \in SlotCallers, slotId \in SlotIds :
       LET gate == Gate(u, {"doctor", "admin"})
           slot == ById(aavailability_slots, slotId)
       IN IF gate # 0 THEN Respond(r, "deleteSlot", gate, Nothing)
          ELSE IF slot = {} THEN Respond(r, "deleteSlot", 404, Nothing)
          ELSE IF AlreadyBooked(CHOOSE s \in slot : TRUE)
               THEN Respond(r, "deleteSlot", 400, [slotId |-> slotId, user |-> u])
          ELSE IF /\ RoleOf(u) = "doctor"
                  /\ DoctorUserId((CHOOSE s \in slot : TRUE).doctor_id) # u
               THEN Respond(r, "deleteSlot", 403, [slotId |-> slotId, user |-> u])
          ELSE Continue(r, [op |-> "deleteSlot", pc |-> "deleteSlot_write",
                            slotId |-> slotId])
  /\ UNCHANGED <<idTables, slotTables, consTables, rxTables, now>>

deleteSlot_write(r) ==
  /\ Ready(r, "deleteSlot_write")
  /\ aavailability_slots' = aavailability_slots \ ById(aavailability_slots, req[r].slotId)
  /\ Respond(r, "deleteSlot", 200, [slotId |-> req[r].slotId])
  /\ UNCHANGED <<idTables, slotSeq, consTables, rxTables, now>>

(* ---------------------------- bookConsultation ------------------------ *)
DayLength == MaxTime + 1

\* new Date(`${slot.slot_date}T${slot.start_time}`)
slotDateTime(slot) == slot.slot_date * DayLength + slot.start_time

(* --------------------------- getAvailableSlots ------------------------ *)
\* req.query.startDate and endDate: <<>> when the query has none
DateParams == {<<>>} \cup {<<d>> : d \in Dates}
\* new Date().toISOString().split('T')[0]
today == now \div DayLength

\* .eq('doctor_id').eq('status', 'available').gte('slot_date').lte('slot_date')
availableSlots(doctorId, startDate, endDate) ==
  {s \in aavailability_slots :
     /\ s.doctor_id = doctorId
     /\ s.status = "available"
     /\ s.slot_date >= (IF startDate # <<>> THEN startDate[1] ELSE today)
     /\ endDate # <<>> => s.slot_date <= endDate[1]}

\* .order('slot_date').order('start_time'): the store may give rows that are
\* equal in both in any order
ordered(rows) ==
  {data \in [1..Cardinality(rows) -> rows] :
     /\ \A i, j \in DOMAIN data : i # j => data[i] # data[j]
     /\ \A i, j \in DOMAIN data :
          i < j => \/ data[i].slot_date < data[j].slot_date
                   \/ /\ data[i].slot_date = data[j].slot_date
                      /\ data[i].start_time <= data[j].start_time}

getAvailableSlots(r) ==
  /\ Ready(r, "idle")
  /\ \E u \in SlotCallers, doctorId \in DoctorIds, startDate, endDate \in DateParams :
       LET gate == authenticate(u)
       IN IF gate # 0 THEN Respond(r, "getAvailableSlots", gate, Nothing)
          ELSE \E data \in ordered(availableSlots(doctorId, startDate, endDate)) :
                 Respond(r, "getAvailableSlots", 200,
                         [doctorId |-> doctorId, startDate |-> startDate,
                          endDate |-> endDate, data |-> data])
  /\ UNCHANGED <<idTables, slotTables, consTables, rxTables, now>>

BookCallers == {"p1", "p2", "ud1"}
BookBodies == [doctorId : DoctorIds, slotId : SlotIds]

\* slot.status !== 'available', with the variant that lets every slot through
SlotNotAvailable_mut(slot) == FALSE

SlotNotAvailable(slot) == slot.status # "available"

\* slotDateTime < new Date()
InThePast_mut(slot) == FALSE
InThePast(slot) == slotDateTime(slot) < now

bookConsultation_load(r) ==
  /\ Ready(r, "idle")
  /\ \E u \in BookCallers, body \in BookBodies :
       LET gate == Gate(u, {"user"})
           slot == ById(aavailability_slots, body.slotId)
           what == [slotId |-> body.slotId, doctorId |-> body.doctorId]
       IN IF gate # 0 THEN Respond(r, "bookConsultation", gate, Nothing)
          ELSE IF slot = {}
               THEN Respond(r, "bookConsultation", 404, [slotId |-> body.slotId])
          ELSE LET s == CHOOSE x \in slot : TRUE
               IN IF SlotNotAvailable(s) THEN Respond(r, "bookConsultation", 400, what)
                  ELSE IF s.doctor_id # body.doctorId
                       THEN Respond(r, "bookConsultation", 400, what)
                  ELSE IF InThePast(s)
                       THEN Respond(r, "bookConsultation", 400, what)
                  ELSE /\ consSeq + BookingsPending < MaxCons
                       /\ Continue(r, [op |-> "bookConsultation", pc |-> "book_insert",
                                       user |-> u, slotId |-> body.slotId,
                                       doctorId |-> body.doctorId])
  /\ UNCHANGED <<idTables, slotTables, consTables, rxTables, now>>

NewConsultation_mut(id, rec) ==
  [id |-> id, patient_id |-> rec.user, doctor_id |-> rec.doctorId,
   slot_id |-> rec.slotId, status |-> "ongoing"]

NewConsultation(id, rec) ==
  [id |-> id, patient_id |-> rec.user, doctor_id |-> rec.doctorId,
   slot_id |-> rec.slotId, status |-> "scheduled"]

\* After the insert the handler uses the new row's id and the slot id; the
\* payment's patient_id and amount are columns the model leaves out.
bookConsultation_insert_mut(r) ==
  /\ Ready(r, "book_insert")
  /\ consSeq' = consSeq + 1
  /\ aconsultations' = aconsultations \cup {NewConsultation(consSeq + 1, req[r])}
  /\ aavailability_slots' =
       UpdateById(aavailability_slots, req[r].slotId, [status |-> "booked"])
  /\ Continue(r, [op |-> "bookConsultation", pc |-> "book_slot",
                  slotId |-> req[r].slotId, cid |-> consSeq + 1])
  /\ UNCHANGED <<idTables, slotSeq, apayments, rxTables, now>>

bookConsultation_insert(r) ==
  /\ Ready(r, "book_insert")
  /\ consSeq' = consSeq + 1
  /\ aconsultations' = aconsultations \cup {NewConsultation(consSeq + 1, req[r])}
  /\ Continue(r, [op |-> "bookConsultation", pc |-> "book_slot",
                  slotId |-> req[r].slotId, cid |-> consSeq + 1])
  /\ UNCHANGED <<idTables, slotTables, apayments, rxTables, now>>

bookConsultation_slot(r) ==
  /\ Ready(r, "book_slot")
  /\ aavailability_slots' =
       UpdateById(aavailability_slots, req[r].slotId, [status |-> "booked"])
  /\ Continue(r, [req[r] EXCEPT !.pc = "book_payment"])
  /\ UNCHANGED <<idTables, slotSeq, consTables, rxTables, now>>

bookConsultation_payment(r) ==
  /\ Ready(r, "book_payment")
  /\ apayments' = apayments \cup
       {[consultation_id |-> req[r].cid, status |-> "pending"]}
  /\ Respond(r, "bookConsultation", 201, [slotId |-> req[r].slotId, cid |-> req[r].cid])
  /\ UNCHANGED <<idTables, slotTables, aconsultations, consSeq, rxTables, now>>

(* The writes of bookConsultation when the store refuses them.  They are
   steps of the specification with faults only. *)
\* consultationError: 'Failed to book consultation'
bookConsultation_insert_fails(r) ==
  /\ Ready(r, "book_insert")
  /\ Respond(r, "bookConsultation", 500, [slotId |-> req[r].slotId])
  /\ UNCHANGED <<idTables, slotTables, consTables, rxTables, now>>

\* updateSlotError: the handler goes on to delete the consultation
bookConsultation_slot_fails(r) ==
  /\ Ready(r, "book_slot")
  /\ Continue(r, [req[r] EXCEPT !.pc = "book_rollback"])
  /\ UNCHANGED <<idTables, slotTables, consTables, rxTables, now>>

\* from('aconsultations').delete().eq('id', consultation.id), then 'Failed to book slot'
bookConsultation_rollback(r) ==
  /\ Ready(r, "book_rollback")
  /\ aconsultations' = aconsultations \ ById(aconsultations, req[r].cid)
  /\ Respond(r, "bookConsultation", 500, [slotId |-> req[r].slotId, cid |-> req[r].cid])
  /\ UNCHANGED <<idTables, slotTables, consSeq, apayments, rxTables, now>>

\* the result of the delete is not looked at
bookConsultation_rollback_fails(r) ==
  /\ Ready(r, "book_rollback")
  /\ Respond(r, "bookConsultation", 500, [slotId |-> req[r].slotId, cid |-> req[r].cid])
  /\ UNCHANGED <<idTables, slotTables, consTables, rxTables, now>>

\* paymentError is logged
bookConsultation_payment_fails_mut(r) ==
  /\ Ready(r, "book_payment")
  /\ Respond(r, "bookConsultation", 500, [slotId |-> req[r].slotId, cid |-> req[r].cid])
  /\ UNCHANGED <<idTables, slotTables, consTables, rxTables, now>>
bookConsultation_payment_fails(r) ==
  /\ Ready(r, "book_payment")
  /\ Respond(r, "bookConsultation", 201, [slotId |-> req[r].slotId, cid |-> req[r].cid])
  /\ UNCHANGED <<idTables, slotTables, consTables, rxTables, now>>

(* ---------------------------- cancelConsultation ---------------------- *)
CancelCallers == {"p1", "p2", "ud2", "adm"}

\* Of req.user the request in flight keeps whether it is a user-role caller
\* other than the consultation's patient.
cancelConsultation_load(r) ==
  /\ Ready(r, "idle")
  /\ \E u \in CancelCallers, cid \in ConsIds :
       LET gate == authenticate(u)
           consultation == ById(aconsultations, cid)
           what == [cid |-> cid]
       IN IF gate # 0 THEN Respond(r, "cancelConsultation", gate, Nothing)
          ELSE IF consultation = {} THEN Respond(r, "cancelConsultation", 404, Nothing)
          ELSE LET c == CHOOSE x \in consultation : TRUE
               IN IF RoleOf(u) = "user" /\ c.patient_id # u
                  THEN Respond(r, "cancelConsultation", 403, [cid |-> cid, user |-> u])
                  ELSE IF c.status = "completed" \/ c.status = "cancelled"
                       THEN Respond(r, "cancelConsultation", 400, what)
                  ELSE Continue(r, [op |-> "cancelConsultation", pc |-> "cancel_write",
                                    cid |-> cid, slot_id |-> c.slot_id,
                                    foreign |-> (RoleOf(u) = "user" /\ c.patient_id # u)])
  /\ UNCHANGED <<idTables, slotTables, consTables, rxTables, now>>

cancelConsultation_write(r) ==
  /\ Ready(r, "cancel_write")
  /\ aconsultations' = UpdateById(aconsultations, req[r].cid, [status |-> "cancelled"])
  /\ Continue(r, [req[r] EXCEPT !.pc = "cancel_free"])
  /\ UNCHANGED <<idTables, slotTables, consSeq, apayments, rxTables, now>>

cancelConsultation_free_mut(r) ==
  /\ Ready(r, "cancel_free")
  /\ Respond(r, "cancelConsultation", 200,
             [cid |-> req[r].cid, slot_id |-> req[r].slot_id, cancelled |-> TRUE])
  /\ UNCHANGED <<idTables, slotTables, consTables, rxTables, now>>

\* both handlers free the slot only when the consultation has a slot_id;
\* bookConsultation always sets one
cancelConsultation_free(r) ==
  /\ Ready(r, "cancel_free")
  /\ aavailability_slots' =
       UpdateById(aavailability_slots, req[r].slot_id, [status |-> "available"])
  /\ Respond(r, "cancelConsultation", 200,
             [cid |-> req[r].cid, slot_id |-> req[r].slot_id, cancelled |-> TRUE])
  /\ UNCHANGED <<idTables, slotSeq, consTables, rxTables, now>>

(* ------------------ getMyConsultations, getConsultationById ----------- *)
\* the callers of the two routes: every user, and a doctor-role user that has
\* no doctor row
ReadCallers == UserIds \cup {"ud3"}
\* req.query.page and limit as numbers; paginationSchema wants both >= 1
Paginations == [page : {0, 1, 2}, limit : {1, 2}]
paginationSchema(q) == q.page >= 1 /\ q.limit >= 1 /\ q.limit <= 100
\* req.query.status: <<>> when the query has none
StatusParams == {<<>>} \cup {<<st>> : st \in {"scheduled", "cancelled"}}

\* .order(...).range(from, to): the model does not keep the columns of the
\* order, so the rows may come in any order; rows from..to of it, counted from 0
range(rows, from, to) ==
  {SubSeq(data, from + 1, IF to + 1 < Len(data) THEN to + 1 ELSE Len(data)) :
     data \in {d \in [1..Cardinality(rows) -> rows] :
                 \A i, j \in DOMAIN d : i # j => d[i] # d[j]}}

\* the query of getMyConsultations with its filter on a column and on status
consultationsWhere(column, value, status) ==
  {c \in aconsultations :
     /\ column = "patient_id" => c.patient_id = value
     /\ column = "doctor_id" => c.doctor_id = value
     /\ status # <<>> => c.status = status[1]}

getMyConsultations_page(r, u, rows, q) ==
  \E data \in range(rows, (q.page - 1) * q.limit, (q.page - 1) * q.limit + q.limit - 1) :
    Respond(r, "getMyConsultations", 200, [user |-> u, data |-> data])

getMyConsultations_load(r) ==
  /\ Ready(r, "idle")
  /\ \E u \in ReadCallers, q \in Paginations, status \in StatusParams :
       LET gate == authenticate(u)
       IN IF gate # 0 THEN Respond(r, "getMyConsultations", gate, Nothing)
          ELSE IF ~paginationSchema(q) THEN Respond(r, "getMyConsultations", 400, Nothing)
          ELSE IF RoleOf(u) = "user"
          THEN getMyConsultations_page(r, u, consultationsWhere("patient_id", u, status), q)
          ELSE IF RoleOf(u) = "doctor"
          THEN IF Cardinality(DoctorOfUser(u)) # 1
               THEN Respond(r, "getMyConsultations", 404, [user |-> u])
               ELSE Continue(r, [op |-> "getMyConsultations", pc |-> "my_query",
                                 user |-> u, q |-> q, status |-> status,
                                 doctorId |-> (CHOOSE d \in DoctorOfUser(u) : TRUE).id])
          ELSE getMyConsultations_page(r, u, consultationsWhere("none", u, status), q)
  /\ UNCHANGED <<idTables, slotTables, consTables, rxTables, now>>

getMyConsultations_query(r) ==
  /\ Ready(r, "my_query")
  /\ getMyConsultations_page(r, req[r].user,
       consultationsWhere("doctor_id", req[r].doctorId, req[r].status), req[r].q)
  /\ UNCHANGED <<idTables, slotTables, consTables, rxTables, now>>

\* consultation.patient_id !== req.user.id
NotOwnPatient_mut(u, consultation) == FALSE
NotOwnPatient(u, consultation) == consultation.patient_id # u

getConsultationById_load(r) ==
  /\ Ready(r, "idle")
  /\ \E u \in ReadCallers, consultationId \in ConsIds :
       LET gate == authenticate(u)
           consultation == ById(aconsultations, consultationId)
       IN IF gate # 0 THEN Respond(r, "getConsultationById", gate, Nothing)
          ELSE IF consultation = {} THEN Respond(r, "getConsultationById", 404, Nothing)
          ELSE LET c == CHOOSE x \in consultation : TRUE
                   what == [user |-> u, data |-> c]
               IN IF RoleOf(u) = "user" /\ NotOwnPatient(u, c)
                  THEN Respond(r, "getConsultationById", 403, what)
                  ELSE IF RoleOf(u) = "doctor"
                  THEN Continue(r, [op |-> "getConsultationById", pc |-> "byId_doctor",
                                    user |-> u, data |-> c])
                  ELSE Respond(r, "getConsultationById", 200, what)
  /\ UNCHANGED <<idTables, slotTables, consTables, rxTables, now>>

getConsultationById_doctor(r) ==
  /\ Ready(r, "byId_doctor")
  /\ LET doctor == DoctorOfUser(req[r].user)
         what == [user |-> req[r].user, data |-> req[r].data]
     IN IF Cardinality(doctor) # 1
           \/ req[r].data.doctor_id # (CHOOSE d \in doctor : TRUE).id
        THEN Respond(r, "getConsultationById", 403, what)
        ELSE Respond(r, "getConsultationById", 200, what)
  /\ UNCHANGED <<idTables, slotTables, consTables, rxTables, now>>

(* ---------------------------- updateConsultation ---------------------- *)
UpdateConsultationCallers == {"p1", "ud1", "ud2", "adm"}

\* updateConsultationSchema: every key optional; the keys go to update() as they are
UpdateConsultationBodies ==
  {[status |-> s] : s \in ConsultationStatus} \cup {[meetingLink |-> "url"]}

Cancels(body) == "status" \in DOMAIN body /\ body.status = "cancelled"

\* req.user.role === 'doctor' and doctorUserId !== req.user.id
NotOwnDoctor_mut(u, c) == FALSE
NotOwnDoctor(u, c) == RoleOf(u) = "doctor" /\ DoctorUserId(c.doctor_id) # u

\* The body is first used by the update and drawn there, as in updateSlot.
\* Of req.user the request in flight keeps whether it is a doctor-role user
\* other than the consultation's doctor.
updateConsultation_load(r) ==
  /\ Ready(r, "idle")
  /\ \E u \in UpdateConsultationCallers, cid \in ConsIds :
       LET gate == Gate(u, {"doctor", "admin"})
           consultation == ById(aconsultations, cid)
       IN IF gate # 0 THEN Respond(r, "updateConsultation", gate, Nothing)
          ELSE IF consultation = {} THEN Respond(r, "updateConsultation", 404, Nothing)
          ELSE LET c == CHOOSE x \in consultation : TRUE
               IN IF NotOwnDoctor(u, c)
                  THEN Respond(r, "updateConsultation", 403, [cid |-> cid, user |-> u])
                  ELSE Continue(r, [op |-> "updateConsultation", pc |-> "updcons_write",
                                    cid |-> cid, slot_id |-> c.slot_id,
                                    foreign |-> (RoleOf(u) = "doctor"
                                                 /\ DoctorUserId(c.doctor_id) # u)])
  /\ UNCHANGED <<idTables, slotTables, consTables, rxTables, now>>

updateConsultation_write(r) ==
  /\ Ready(r, "updcons_write")
  /\ \E body \in UpdateConsultationBodies :
       LET ok == KnownColumns(ConsultationColumns, body)
           what == [cid |-> req[r].cid, slot_id |-> req[r].slot_id, cancelled |-> FALSE]
       IN /\ aconsultations' =
               IF ok THEN UpdateById(aconsultations, req[r].cid, body)
               ELSE aconsultations
          /\ IF ~ok THEN Respond(r, "updateConsultation", 500, what)
             ELSE IF Cancels(body)
                  THEN Continue(r, [req[r] EXCEPT !.pc = "updcons_free"])
                  ELSE Respond(r, "updateConsultation", 200, what)
  /\ UNCHANGED <<idTables, slotTables, consSeq, apayments, rxTables, now>>

updateConsultation_free(r) ==
  /\ Ready(r, "updcons_free")
  /\ aavailability_slots' =
       UpdateById(aavailability_slots, req[r].slot_id, [status |-> "available"])
  /\ Respond(r, "updateConsultation", 200,
             [cid |-> req[r].cid, slot_id |-> req[r].slot_id, cancelled |-> TRUE])
  /\ UNCHANGED <<idTables, slotSeq, consTables, rxTables, now>>

(* ---------------------------- createPrescription ---------------------- *)
RxCallers == {"ud1", "ud2", "p1"}

\* validatedData.items: at least one item; an item is modelled by its medicineId
ItemLists == UNION {[1..n -> MedIds] : n \in 1..MaxItems}

medicineIds(items) == {items[i] : i \in 1..Len(items)}

\* from('amedicines').select('id, name, in_stock').in('id', medicineIds)
medicinesIn(items) == {m \in amedicines : m.id \in medicineIds(items)}

outOfStockMedicines(medicines) == {m \in medicines : ~m.in_stock}

RxPending ==
  Cardinality({q \in Reqs : req[q].pc = "rx_insert"})

\* authenticate, authorize('doctor'), and the caller's doctor row. The body is
\* parsed first; consultationId and items are drawn where they are first used.
createPrescription_doctor(r) ==
  /\ Ready(r, "idle")
  /\ \E u \in RxCallers :
       LET gate == Gate(u, {"doctor"})
           doctor == DoctorOfUser(u)
       IN IF gate # 0 THEN Respond(r, "createPrescription", gate, Nothing)
          ELSE IF doctor = {} THEN Respond(r, "createPrescription", 404, Nothing)
          ELSE Continue(r, [op |-> "createPrescription", pc |-> "rx_consultation",
                            doctorId |-> (CHOOSE d \in doctor : TRUE).id])
  /\ UNCHANGED <<idTables, slotTables, consTables, rxTables, now>>

\* consultation.status !== 'completed' && consultation.status !== 'ongoing',
\* with the variant that refuses cancelled consultations only
NotPrescribable_mut(c) == c.status = "cancelled"

NotPrescribable(c) == c.status # "completed" /\ c.status # "ongoing"

\* consultation.doctor_id !== doctor.id
NotOwnConsultation_mut(c, doctorId) == FALSE
NotOwnConsultation(c, doctorId) == c.doctor_id # doctorId

createPrescription_consultation(r) ==
  /\ Ready(r, "rx_consultation")
  /\ \E cid \in ConsIds :
       LET consultation == ById(aconsultations, cid)
           what == [cid |-> cid, doctorId |-> req[r].doctorId]
       IN IF consultation = {} THEN Respond(r, "createPrescription", 404, Nothing)
          ELSE LET c == CHOOSE x \in consultation : TRUE
               IN IF NotOwnConsultation(c, req[r].doctorId)
                  THEN Respond(r, "createPrescription", 403, what)
                  ELSE IF NotPrescribable(c)
                       THEN Respond(r, "createPrescription", 400, what)
                  ELSE Continue(r, [op |-> "createPrescription", pc |-> "rx_existing",
                                    doctorId |-> req[r].doctorId, cid |-> cid,
                                    patient_id |-> c.patient_id])
  /\ UNCHANGED <<idTables, slotTables, consTables, rxTables, now>>

\* .single() gives a row only when exactly one row matches
createPrescription_existing(r) ==
  LET existingPrescription ==
        {p \in aprescriptions : p.consultation_id = req[r].cid}
  IN /\ Ready(r, "rx_existing")
     /\ IF Cardinality(existingPrescription) = 1
        THEN Respond(r, "createPrescription", 409, [cid |-> req[r].cid])
        ELSE Continue(r, [req[r] EXCEPT !.pc = "rx_medicines"])
     /\ UNCHANGED <<idTables, slotTables, consTables, rxTables, now>>

createPrescription_medicines(r) ==
  /\ Ready(r, "rx_medicines")
  /\ \E items \in ItemLists :
       LET medicines == medicinesIn(items)
       IN IF Cardinality(medicines) # Len(items)
          THEN Respond(r, "createPrescription", 404, [items |-> items])
          ELSE IF outOfStockMedicines(medicines) # {}
               THEN Respond(r, "createPrescription", 400, [items |-> items])
          ELSE /\ rxSeq + RxPending < MaxRx
               /\ Continue(r, [req[r] EXCEPT !.pc = "rx_insert"] @@ [items |-> items])
  /\ UNCHANGED <<idTables, slotTables, consTables, rxTables, now>>

createPrescription_insert(r) ==
  /\ Ready(r, "rx_insert")
  /\ rxSeq' = rxSeq + 1
  /\ aprescriptions' = aprescriptions \cup
       {[id |-> rxSeq + 1, consultation_id |-> req[r].cid,
         doctor_id |-> req[r].doctorId, patient_id |-> req[r].patient_id]}
  /\ Continue(r, [req[r] EXCEPT !.pc = "rx_items"] @@ [pid |-> rxSeq + 1])
  /\ UNCHANGED <<idTables, slotTables, consTables, aprescription_items, amedicines,
                 medSeq, now>>

prescriptionItems(pid, items) ==
  {[prescription_id |-> pid, n |-> i, medicine_id |-> items[i]] : i \in 1..Len(items)}

\* the items insert; the select that follows only builds the response body
createPrescription_items(r) ==
  /\ Ready(r, "rx_items")
  /\ aprescription_items' =
       aprescription_items \cup prescriptionItems(req[r].pid, req[r].items)
  /\ Respond(r, "createPrescription", 201, [pid |-> req[r].pid, items |-> req[r].items])
  /\ UNCHANGED <<idTables, slotTables, consTables, aprescriptions, rxSeq, amedicines,
                 medSeq, now>>

(* The items insert of createPrescription when the store refuses it.  These
   are steps of the specification with faults only. *)
\* itemsError: the handler goes on to delete the prescription
createPrescription_items_fails(r) ==
  /\ Ready(r, "rx_items")
  /\ Continue(r, [req[r] EXCEPT !.pc = "rx_rollback"])
  /\ UNCHANGED <<idTables, slotTables, consTables, rxTables, now>>

\* from('aprescriptions').delete().eq('id', prescription.id), then
\* 'Failed to create prescription items'
createPrescription_rollback(r) ==
  /\ Ready(r, "rx_rollback")
  /\ aprescriptions' = aprescriptions \ ById(aprescriptions, req[r].pid)
  /\ Respond(r, "createPrescription", 500, [pid |-> req[r].pid, items |-> req[r].items])
  /\ UNCHANGED <<idTables, slotTables, consTables, rxSeq, aprescription_items,
                 amedicines, medSeq, now>>

\* the result of the delete is not looked at
createPrescription_rollback_fails(r) ==
  /\ Ready(r, "rx_rollback")
  /\ Respond(r, "createPrescription", 500, [pid |-> req[r].pid, items |-> req[r].items])
  /\ UNCHANGED <<idTables, slotTables, consTables, rxTables, now>>

(* ---------------------------- updateMedicineStock --------------------- *)
StockCallers == {"adm", "ud1"}
\* req.body.inStock with its typeof
StockBodies ==
  {[typeof |-> "boolean", value |-> b] : b \in BOOLEAN} \cup {[typeof |-> "string"]}

updateMedicineStock(r) ==
  /\ Ready(r, "idle")
  /\ \E u \in StockCallers, medicineId \in MedIds, inStock \in StockBodies :
       LET gate == Gate(u, {"admin"})
           what == [medicineId |-> medicineId]
       IN IF gate # 0
          THEN /\ Respond(r, "updateMedicineStock", gate, Nothing)
               /\ UNCHANGED amedicines
          ELSE IF inStock.typeof # "boolean"
          THEN /\ Respond(r, "updateMedicineStock", 400, Nothing)
               /\ UNCHANGED amedicines
          ELSE IF ById(amedicines, medicineId) = {}
          THEN /\ Respond(r, "updateMedicineStock", 404, Nothing)
               /\ UNCHANGED amedicines
          ELSE /\ amedicines' = UpdateById(amedicines, medicineId, [in_stock |-> inStock.value])
               /\ Respond(r, "updateMedicineStock", 200, what)
  /\ UNCHANGED <<idTables, slotTables, consTables, aprescriptions, rxSeq,
                 aprescription_items, medSeq, now>>

(* ------------------------- the medicine catalog ---------------------- *)
\* The Authorization header of a request to the catalog routes: none, a token
\* that jwt.verify refuses, or a verified token with the id and the role that
\* were signed into it.
Tokens ==
  {[kind |-> "none"], [kind |-> "invalid"]}
    \cup [kind : {"jwt"}, id : {"adm", "adx", "gone", "ud1"}, role : {"admin", "doctor"}]

\* jwt.verify(token, JWT_SECRET) returns the payload
verify(t) == t.kind = "jwt"

\* req.user as authenticate attaches it
reqUser_mut(t) == [id |-> t.id, role |-> t.role]
reqUser(t) == [id |-> t.id, role |-> RoleOf(t.id)]

\* authenticate, then authorize(...allowedRoles), on a request with header t
GateToken(t, allowedRoles) ==
  IF ~verify(t) THEN 401
  ELSE IF authenticate(t.id) # 0 THEN authenticate(t.id)
  ELSE IF reqUser(t).role \in allowedRoles THEN 0 ELSE 403

MedNames == {"a", "b"}
catalogFrame ==
  <<idTables, slotTables, consTables, aprescriptions, rxSeq, aprescription_items, now>>

\* from('amedicines').select('id').eq('name', name)
ByName(name) == {m \in amedicines : m.name = name}

createMedicineSchema(body) == body.name # ""
CreateMedicineBodies == [name : MedNames \cup {""}, inStock : BOOLEAN]
MedsPending == Cardinality({q \in Reqs : req[q].pc = "med_insert"})

createMedicine_check(r) ==
  /\ Ready(r, "idle")
  /\ \E t \in Tokens, body \in CreateMedicineBodies :
       LET gate == GateToken(t, {"admin"})
       IN IF gate # 0
          THEN Respond(r, "createMedicine", gate, [token |-> t])
          ELSE IF ~createMedicineSchema(body)
          THEN Respond(r, "createMedicine", 400, [token |-> t])
          ELSE IF Cardinality(ByName(body.name)) = 1
          THEN Respond(r, "createMedicine", 409, [token |-> t, name |-> body.name])
          ELSE /\ medSeq + MedsPending < MaxMeds
               /\ Continue(r, [op |-> "createMedicine", pc |-> "med_insert",
                               token |-> t, body |-> body])
  /\ UNCHANGED <<catalogFrame, amedicines, medSeq>>

createMedicine_insert(r) ==
  /\ Ready(r, "med_insert")
  /\ medSeq' = medSeq + 1
  /\ amedicines' = amedicines \cup
       {[id |-> medSeq', name |-> req[r].body.name, in_stock |-> req[r].body.inStock]}
  /\ Respond(r, "createMedicine", 201,
             [token |-> req[r].token, name |-> req[r].body.name, id |-> medSeq'])
  /\ UNCHANGED catalogFrame

\* updateMedicineSchema: every field is optional; inStock is "undefined" when
\* the body has none.  A body without any field is not drawn.
UpdateMedicineBodies ==
  {b \in [name : MedNames \cup {""}, inStock : {"undefined", "true", "false"}] :
     b.name # "" \/ b.inStock # "undefined"}

updateData(body) ==
  IF body.name # "" /\ body.inStock # "undefined"
  THEN [name |-> body.name, in_stock |-> body.inStock = "true"]
  ELSE IF body.name # "" THEN [name |-> body.name]
  ELSE [in_stock |-> body.inStock = "true"]

updateMedicine_load(r) ==
  /\ Ready(r, "idle")
  /\ \E t \in Tokens, medicineId \in MedIds :
       LET gate == GateToken(t, {"admin"})
       IN IF gate # 0
          THEN Respond(r, "updateMedicine", gate, [token |-> t])
          ELSE IF ById(amedicines, medicineId) = {}
          THEN Respond(r, "updateMedicine", 404, [token |-> t])
          ELSE Continue(r, [op |-> "updateMedicine", pc |-> "med_update",
                            token |-> t, medicineId |-> medicineId])
  /\ UNCHANGED <<catalogFrame, amedicines, medSeq>>

updateMedicine_write(r) ==
  /\ Ready(r, "med_update")
  /\ \E body \in UpdateMedicineBodies :
       LET medicineId == req[r].medicineId
           what == [token |-> req[r].token, medicineId |-> medicineId, body |-> body]
       IN IF ById(amedicines, medicineId) = {}
          THEN /\ Respond(r, "updateMedicine", 500, what)
               /\ UNCHANGED amedicines
          ELSE /\ amedicines' = UpdateById(amedicines, medicineId, updateData(body))
               /\ Respond(r, "updateMedicine", 200, what)
  /\ UNCHANGED <<catalogFrame, medSeq>>

\* from('aprescription_items').select('id').eq('medicine_id', medicineId).limit(1)
prescriptionItemsOf(medicineId) ==
  {i \in aprescription_items : i.medicine_id = medicineId}

deleteMedicine_check(r) ==
  /\ Ready(r, "idle")
  /\ \E t \in Tokens, medicineId \in MedIds :
       LET gate == GateToken(t, {"admin"})
           what == [token |-> t, medicineId |-> medicineId]
       IN IF gate # 0
          THEN Respond(r, "deleteMedicine", gate, [token |-> t])
          ELSE IF prescriptionItemsOf(medicineId) # {}
          THEN Respond(r, "deleteMedicine", 400, what)
          ELSE Continue(r, [op |-> "deleteMedicine", pc |-> "med_delete",
                            token |-> t, medicineId |-> medicineId])
  /\ UNCHANGED <<catalogFrame, amedicines, medSeq>>

deleteMedicine_delete(r) ==
  /\ Ready(r, "med_delete")
  /\ amedicines' = amedicines \ ById(amedicines, req[r].medicineId)
  /\ Respond(r, "deleteMedicine", 200,
             [token |-> req[r].token, medicineId |-> req[r].medicineId])
  /\ UNCHANGED <<catalogFrame, medSeq>>

(* ----------------------- asyncHandler, errorHandler ------------------- *)
\* What a handler may throw: a ZodError with its issues, an AppError with a
\* status code, any other Error.
ZodIssues == [path : {<<"email">>, <<"items", "0">>}, message : {"Required", "Invalid"}]
ZodErrors ==
  {[kind |-> "ZodError", issues |-> i] :
     i \in UNION {[1..n -> ZodIssues] : n \in 1..MaxIssues}}
AppErrors ==
  [kind : {"AppError"}, statusCode : {400, 401, 403, 404, 409, 500},
   message : {"Slot not found", "relation does not exist"}]
OtherErrors == [kind : {"Error"}, message : {"relation does not exist", "x is undefined"}]
Errors == ZodErrors \cup AppErrors \cup OtherErrors
\* process.env.NODE_ENV
NodeEnvs == {"production", "development", "undefined"}

RECURSIVE join(_, _)
\* path.join(separator)
join(path, separator) ==
  IF Len(path) = 0 THEN ""
  ELSE IF Len(path) = 1 THEN path[1]
  ELSE path[1] \o separator \o join(Tail(path), separator)

errorHandler_mut(err, env) ==
  [status |-> IF err.kind = "AppError" THEN err.statusCode ELSE 500,
   body |-> [success |-> FALSE,
             error |-> IF err.kind = "ZodError" THEN "Validation failed" ELSE err.message]]
errorHandler(err, env) ==
  IF err.kind = "ZodError"
  THEN [status |-> 400,
        body |-> [success |-> FALSE, error |-> "Validation failed",
                  errors |-> [i \in 1..Len(err.issues) |->
                               [field |-> join(err.issues[i].path, "."),
                                message |-> err.issues[i].message]]]]
  ELSE IF err.kind = "AppError"
  THEN [status |-> err.statusCode, body |-> [success |-> FALSE, error |-> err.message]]
  ELSE [status |-> 500,
        body |-> [success |-> FALSE,
                  error |-> IF env = "production" THEN "Internal server error"
                            ELSE err.message]]

\* asyncHandler(fn): fn answers with success true, or what it throws goes to next
asyncHandler(r) ==
  /\ Ready(r, "idle")
  /\ \/ \E code \in {200, 201} :
          Respond(r, "fn", code, [body |-> [success |-> TRUE]])
     \/ \E err \in Errors : Continue(r, [op |-> "fn", pc |-> "next", err |-> err])
  /\ UNCHANGED <<idTables, slotTables, consTables, rxTables, now>>

\* app.use(errorHandler): the one handler that next(err) reaches
next(r) ==
  /\ Ready(r, "next")
  /\ \E env \in NodeEnvs :
       LET out == errorHandler(req[r].err, env)
       IN Respond(r, "fn", out.status, [err |-> req[r].err, env |-> env, body |-> out.body])
  /\ UNCHANGED <<idTables, slotTables, consTables, rxTables, now>>

(* -------------------------- createDoctorProfile ---------------------- *)
\* On the doctor routes adoctors rows also have registration_number,
\* is_verified and bio.
DoctorCallers == {"ud1", "ud2", "adm", "p1"}
createDoctorProfileSchema(body) == body.registrationNumber # ""
\* userId is "" when the body has none
DoctorProfileBodies ==
  [userId : {"", "ud1", "ud2", "p1", "gone"}, registrationNumber : {"", "r1", "r2"}]

\* from('adoctors').select('id').eq('registration_number', n)
ByRegistration(n) == {d \in adoctors : d.registration_number = n}
DoctorsPending == Cardinality({q \in Reqs : req[q].op = "createDoctorProfile"})
doctorFrame == <<ausers, userSeq, aprofiles, slotTables, consTables, rxTables, now>>

createDoctorProfile_user(r) ==
  /\ Ready(r, "idle")
  /\ \E u \in DoctorCallers, body \in DoctorProfileBodies :
       LET gate == Gate(u, {"doctor", "admin"})
           targetUserId == IF body.userId # "" THEN body.userId ELSE u
           user == ById(ausers, targetUserId)
           what == [user |-> u, targetUserId |-> targetUserId]
       IN IF gate # 0 THEN Respond(r, "createDoctorProfile", gate, Nothing)
          ELSE IF ~createDoctorProfileSchema(body)
          THEN Respond(r, "createDoctorProfile", 400, Nothing)
          ELSE IF RoleOf(u) # "admin" /\ body.userId # "" /\ body.userId # u
          THEN Respond(r, "createDoctorProfile", 403, what)
          ELSE IF user = {} THEN Respond(r, "createDoctorProfile", 404, what)
          ELSE IF (CHOOSE x \in user : TRUE).role # "doctor"
          THEN Respond(r, "createDoctorProfile", 400, what)
          ELSE /\ Cardinality(adoctors) + DoctorsPending < MaxDoctors
               /\ Continue(r, [op |-> "createDoctorProfile", pc |-> "doctor_existing",
                               targetUserId |-> targetUserId,
                               registrationNumber |-> body.registrationNumber,
                               user |-> u, role |-> RoleOf(u)])
  /\ UNCHANGED <<doctorFrame, adoctors>>

createDoctorProfile_existing(r) ==
  /\ Ready(r, "doctor_existing")
  /\ IF Cardinality(DoctorOfUser(req[r].targetUserId)) = 1
     THEN Respond(r, "createDoctorProfile", 409,
                  [targetUserId |-> req[r].targetUserId,
                   registrationNumber |-> req[r].registrationNumber])
     ELSE Continue(r, [req[r] EXCEPT !.pc = "doctor_registration"])
  /\ UNCHANGED <<doctorFrame, adoctors>>

createDoctorProfile_registration(r) ==
  /\ Ready(r, "doctor_registration")
  /\ IF Cardinality(ByRegistration(req[r].registrationNumber)) = 1
     THEN Respond(r, "createDoctorProfile", 409,
                  [targetUserId |-> req[r].targetUserId,
                   registrationNumber |-> req[r].registrationNumber])
     ELSE Continue(r, [req[r] EXCEPT !.pc = "doctor_insert"])
  /\ UNCHANGED <<doctorFrame, adoctors>>

\* ids are given in the order of the inserts; no handler deletes a doctor
NewDoctorId == "d" \o ToString(Cardinality(adoctors) + 1)

\* is_verified: req.user.role === 'admin'
AutoVerify_mut(role) == TRUE
AutoVerify(role) == role = "admin"

createDoctorProfile_insert(r) ==
  /\ Ready(r, "doctor_insert")
  /\ adoctors' = adoctors \cup
       {[id |-> NewDoctorId, user_id |-> req[r].targetUserId,
         registration_number |-> req[r].registrationNumber,
         is_verified |-> AutoVerify(req[r].role), bio |-> ""]}
  /\ Respond(r, "createDoctorProfile", 201,
             [targetUserId |-> req[r].targetUserId,
              registrationNumber |-> req[r].registrationNumber, id |-> NewDoctorId])
  /\ UNCHANGED doctorFrame

(* -------------------------- updateDoctorProfile ---------------------- *)
\* req.params.doctorId
DoctorRowIds == {"d" \o ToString(i) : i \in 1..MaxDoctors}

\* req.body: bio, and for some requests a key is_verified or isVerified,
\* which updateDoctorProfileSchema does not have
UpdateDoctorBodies ==
  [bio : {"b"}] \cup [bio : {"b"}, is_verified : {TRUE}] \cup [bio : {"b"}, isVerified : {TRUE}]

\* updateData takes the keys of the schema one by one
doctorUpdateData(body) == [bio |-> body.bio]

updateDoctorProfile_load(r) ==
  /\ Ready(r, "idle")
  /\ \E u \in DoctorCallers, doctorId \in DoctorRowIds :
       LET gate == Gate(u, {"doctor", "admin"})
           doctor == ById(adoctors, doctorId)
           what == [user |-> u, doctorId |-> doctorId]
       IN IF gate # 0 THEN Respond(r, "updateDoctorProfile", gate, Nothing)
          ELSE IF doctor = {} THEN Respond(r, "updateDoctorProfile", 404, what)
          ELSE IF RoleOf(u) = "doctor" /\ (CHOOSE d \in doctor : TRUE).user_id # u
          THEN Respond(r, "updateDoctorProfile", 403, what)
          ELSE Continue(r, [op |-> "updateDoctorProfile", pc |-> "doctor_update",
                            doctorId |-> doctorId])
  /\ UNCHANGED <<doctorFrame, adoctors>>

updateDoctorProfile_write(r) ==
  /\ Ready(r, "doctor_update")
  /\ \E body \in UpdateDoctorBodies :
       /\ adoctors' = UpdateById(adoctors, req[r].doctorId, doctorUpdateData(body))
       /\ Respond(r, "updateDoctorProfile", 200, [doctorId |-> req[r].doctorId, body |-> body])
  /\ UNCHANGED doctorFrame

(* ------------------------------ verifyDoctor -------------------------- *)
\* req.body.isVerified with its typeof
VerifyBodies ==
  {[typeof |-> "boolean", value |-> b] : b \in BOOLEAN} \cup {[typeof |-> "undefined"]}

\* one update with .select().single(): no row gives 404
verifyDoctor(r) ==
  /\ Ready(r, "idle")
  /\ \E u \in DoctorCallers, doctorId \in DoctorRowIds, isVerified \in VerifyBodies :
       LET gate == Gate(u, {"admin"})
           what == [user |-> u, doctorId |-> doctorId]
       IN IF gate # 0
          THEN /\ Respond(r, "verifyDoctor", gate, Nothing)
               /\ UNCHANGED adoctors
          ELSE IF isVerified.typeof # "boolean"
          THEN /\ Respond(r, "verifyDoctor", 400, what)
               /\ UNCHANGED adoctors
          ELSE IF ById(adoctors, doctorId) = {}
          THEN /\ Respond(r, "verifyDoctor", 404, what)
               /\ UNCHANGED adoctors
          ELSE /\ adoctors' =
                    UpdateById(adoctors, doctorId, [is_verified |-> isVerified.value])
               /\ Respond(r, "verifyDoctor", 200, what)
  /\ UNCHANGED doctorFrame

(* ------------------------------- register ----------------------------- *)
\* bcrypt.hash and bcrypt.compare
hash(password) == <<"bcrypt", password>>
compare(password, passwordHash) == passwordHash = hash(password)

\* registerSchema: an email, role user or doctor
registerSchema_mut(body) == body.email # ""
registerSchema(body) == body.email # "" /\ body.role \in {"user", "doctor"}

RegisterBodies ==
  [email : {"p1@", "new@"}, password : {"pw1"}, role : {"user", "doctor"}]
    \cup {[email |-> "new@", password |-> "pw1", role |-> "admin"]}

ByEmail(email) == {u \in ausers : u.email = email}

UsersPending == Cardinality({q \in Reqs : req[q].pc = "register_user"})

\* .single() gives a row only when exactly one row matches
register_check(r) ==
  /\ Ready(r, "idle")
  /\ \E body \in RegisterBodies :
       LET existingUser == ByEmail(body.email)
       IN IF ~registerSchema(body) THEN Respond(r, "register", 400, Nothing)
          ELSE IF Cardinality(existingUser) = 1
               THEN Respond(r, "register", 409, [email |-> body.email])
          ELSE /\ userSeq + UsersPending < MaxUsers
               /\ Continue(r, [op |-> "register", pc |-> "register_user", body |-> body])
  /\ UNCHANGED <<idTables, slotTables, consTables, rxTables, now>>

NewUserId(n) == "u" \o ToString(n)

NewUser(id, body) ==
  [id |-> id, email |-> body.email, password_hash |-> hash(body.password),
   role |-> body.role, is_active |-> TRUE]

register_user(r) ==
  /\ Ready(r, "register_user")
  /\ userSeq' = userSeq + 1
  /\ ausers' = ausers \cup {NewUser(NewUserId(userSeq + 1), req[r].body)}
  /\ Continue(r, [op |-> "register", pc |-> "register_profile",
                  user |-> NewUserId(userSeq + 1), email |-> req[r].body.email,
                  role |-> req[r].body.role])
  /\ UNCHANGED <<aprofiles, adoctors, slotTables, consTables, rxTables, now>>

\* The source does not show whether the store keeps ausers.email unique: the
\* insert of an email that a row already has may also be refused (userError).
register_user_refused(r) ==
  /\ Ready(r, "register_user")
  /\ ByEmail(req[r].body.email) # {}
  /\ Respond(r, "register", 500, [email |-> req[r].body.email])
  /\ UNCHANGED <<idTables, slotTables, consTables, rxTables, now>>

\* jwt.sign({ id: userId, email, role }, JWT_SECRET, ...)
generateToken(userId, email, role) ==
  [kind |-> "jwt", id |-> userId, email |-> email, role |-> role]

register_profile(r) ==
  /\ Ready(r, "register_profile")
  /\ aprofiles' = aprofiles \cup {[user_id |-> req[r].user]}
  /\ Respond(r, "register", 201,
             [email |-> req[r].email, id |-> req[r].user,
              token |-> generateToken(req[r].user, req[r].email, req[r].role)])
  /\ UNCHANGED <<ausers, userSeq, adoctors, slotTables, consTables, rxTables, now>>

(* The profile insert of register when the store refuses it.  These are
   steps of the specification with faults only. *)
\* profileError: the handler goes on to delete the user
register_profile_fails(r) ==
  /\ Ready(r, "register_profile")
  /\ Continue(r, [req[r] EXCEPT !.pc = "register_rollback"])
  /\ UNCHANGED <<idTables, slotTables, consTables, rxTables, now>>

\* from('ausers').delete().eq('id', user.id), then 'Failed to create user profile'
register_rollback(r) ==
  /\ Ready(r, "register_rollback")
  /\ ausers' = ausers \ ById(ausers, req[r].user)
  /\ Respond(r, "register", 500, [email |-> req[r].email, id |-> req[r].user])
  /\ UNCHANGED <<userSeq, aprofiles, adoctors, slotTables, consTables, rxTables, now>>

\* the result of the delete is not looked at
register_rollback_fails(r) ==
  /\ Ready(r, "register_rollback")
  /\ Respond(r, "register", 500, [email |-> req[r].email, id |-> req[r].user])
  /\ UNCHANGED <<idTables, slotTables, consTables, rxTables, now>>

(* -------------------------------- login ------------------------------- *)
LoginBodies == [email : {"p1@", "px@", "no@"}, password : {"pw1", "bad"}]

InvalidCredentials == "Invalid email or password"

login_find(r) ==
  /\ Ready(r, "idle")
  /\ \E body \in LoginBodies :
       LET user == ByEmail(body.email)
           u == CHOOSE x \in user : TRUE
       IN IF Cardinality(user) # 1
          THEN Respond(r, "login", 401, body @@ [message |-> InvalidCredentials])
          ELSE IF ~u.is_active
          THEN Respond(r, "login", 403, body @@ [message |-> "Account is deactivated"])
          ELSE IF ~compare(body.password, u.password_hash)
          THEN Respond(r, "login", 401, body @@ [message |-> InvalidCredentials])
          ELSE Continue(r, [op |-> "login", pc |-> "login_touch", body |-> body])
  /\ UNCHANGED <<idTables, slotTables, consTables, rxTables, now>>

\* update({last_login}), a column the model leaves out, then the token
login_touch(r) ==
  /\ Ready(r, "login_touch")
  /\ Respond(r, "login", 200, req[r].body @@ [message |-> "Login successful"])
  /\ UNCHANGED <<idTables, slotTables, consTables, rxTables, now>>

(* --------------------------- initial states --------------------------- *)
InitUsers ==
  {[id |-> "p1", role |-> "user", is_active |-> TRUE],
   [id |-> "p2", role |-> "user", is_active |-> TRUE],
   [id |-> "ud1", role |-> "doctor", is_active |-> TRUE],
   [id |-> "ud2", role |-> "doctor", is_active |-> TRUE],
   [id |-> "adm", role |-> "admin", is_active |-> TRUE]}

InitDoctors ==
  {[id |-> "d1", user_id |-> "ud1"], [id |-> "d2", user_id |-> "ud2"]}

InitCommon ==
  /\ ausers = InitUsers
  /\ userSeq = 0
  /\ aprofiles = {[user_id |-> u.id] : u \in InitUsers}
  /\ adoctors = InitDoctors
  /\ req = [r \in Reqs |-> Idle]
  /\ res = NoRes

(* Slot management on an empty slot table. *)
InitSlots ==
  /\ InitCommon
  /\ aavailability_slots = {}
  /\ slotSeq = 0
  /\ aconsultations = {}
  /\ consSeq = 0
  /\ apayments = {}
  /\ aprescriptions = {}
  /\ rxSeq = 0
  /\ aprescription_items = {}
  /\ amedicines = {}
  /\ medSeq = 0
  /\ now = 0

NextSlots ==
  \/ deliver
  \/ \E r \in Reqs :
       \/ createSlot_check(r)
       \/ createSlot_insert(r)
       \/ updateSlot_load(r)
       \/ updateSlot_write(r)

SpecSlots == InitSlots /\ [][NextSlots]_vars

(* Slot creation alone, on an empty slot table. *)
InitCreate == InitSlots

NextCreate ==
  \/ deliver
  \/ \E r \in Reqs :
       \/ createSlot_check(r)
       \/ createSlot_insert(r)

SpecCreate == InitCreate /\ [][NextCreate]_vars

(* Booking on one slot of doctor d1, read before or after its start. *)
TheSlot ==
  [id |-> 1, doctor_id |-> "d1", slot_date |-> 1, start_time |-> 1,
   end_time |-> 2, status |-> "available"]

Init ==
  /\ InitCommon
  /\ aavailability_slots = {TheSlot}
  /\ slotSeq = 1
  /\ aconsultations = {}
  /\ consSeq = 0
  /\ apayments = {}
  /\ aprescriptions = {}
  /\ rxSeq = 0
  /\ aprescription_items = {}
  /\ amedicines = {}
  /\ medSeq = 0
  /\ now \in {slotDateTime(TheSlot) - 1, slotDateTime(TheSlot) + 1}

Next ==
  \/ deliver
  \/ \E r \in Reqs :
    \/ bookConsultation_load(r)
    \/ bookConsultation_insert(r)
    \/ bookConsultation_slot(r)
    \/ bookConsultation_payment(r)
    \/ cancelConsultation_load(r)
    \/ cancelConsultation_write(r)
    \/ cancelConsultation_free(r)
    \/ updateConsultation_load(r)
    \/ updateConsultation_write(r)
    \/ updateConsultation_free(r)
    \/ updateSlot_load(r)
    \/ updateSlot_write(r)
    \/ deleteSlot_load(r)
    \/ deleteSlot_write(r)

Spec == Init /\ [][Next]_vars

(* Requests that run one after another: one request is in flight at a time,
   so all of them are steps of the first request. *)
OneAtATime == {"r1"}

InitSequential == Init

NextSequential ==
  \/ deliver
  \/ \E r \in OneAtATime :
    \/ bookConsultation_load(r)
    \/ bookConsultation_insert(r)
    \/ bookConsultation_slot(r)
    \/ bookConsultation_payment(r)
    \/ cancelConsultation_load(r)
    \/ cancelConsultation_write(r)
    \/ cancelConsultation_free(r)
    \/ updateConsultation_load(r)
    \/ updateConsultation_write(r)
    \/ updateConsultation_free(r)
    \/ updateSlot_load(r)
    \/ updateSlot_write(r)

SpecSequential == InitSequential /\ [][NextSequential]_vars

(* Creating and updating slots, one request after another, on an empty slot
   table. *)
InitSlotSequence == InitSlots

NextSlotSequence ==
  \/ deliver
  \/ \E r \in OneAtATime :
    \/ createSlot_check(r)
    \/ createSlot_insert(r)
    \/ updateSlot_load(r)
    \/ updateSlot_write(r)

SpecSlotSequence == InitSlotSequence /\ [][NextSlotSequence]_vars

(* Booking a slot while its doctor updates or deletes it. *)
InitDeleting == Init

NextDeleting ==
  \/ deliver
  \/ \E r \in Reqs :
    \/ bookConsultation_load(r)
    \/ bookConsultation_insert(r)
    \/ bookConsultation_slot(r)
    \/ bookConsultation_payment(r)
    \/ updateSlot_load(r)
    \/ updateSlot_write(r)
    \/ deleteSlot_load(r)
    \/ deleteSlot_write(r)

SpecDeleting == InitDeleting /\ [][NextDeleting]_vars

(* Prescribing for the ongoing second consultation on the slot, the first
   being scheduled, cancelled or marked no_show; medicine 1 in stock,
   medicine 2 not. *)
InitRx ==
  /\ InitCommon
  /\ aavailability_slots = {[TheSlot EXCEPT !.status = "booked"]}
  /\ slotSeq = 1
  /\ \E st \in {"scheduled", "cancelled", "no_show"} :
       aconsultations =
         {[id |-> 1, patient_id |-> "p2", doctor_id |-> "d1", slot_id |-> 1,
           status |-> st],
          [id |-> 2, patient_id |-> "p1", doctor_id |-> "d1", slot_id |-> 1,
           status |-> "ongoing"]}
  /\ consSeq = 2
  /\ apayments = {}
  /\ aprescriptions = {}
  /\ rxSeq = 0
  /\ aprescription_items = {}
  /\ amedicines = {[id |-> 1, name |-> "a", in_stock |-> TRUE],
                   [id |-> 2, name |-> "b", in_stock |-> FALSE]}
  /\ medSeq = 2
  /\ now = slotDateTime(TheSlot)

NextRx ==
  \/ deliver
  \/ \E r \in Reqs :
    \/ createPrescription_doctor(r)
    \/ createPrescription_consultation(r)
    \/ createPrescription_existing(r)
    \/ createPrescription_medicines(r)
    \/ createPrescription_insert(r)
    \/ createPrescription_items(r)
    \/ updateMedicineStock(r)
    \/ deleteMedicine_check(r)
    \/ deleteMedicine_delete(r)

SpecRx == InitRx /\ [][NextRx]_vars

(* Prescribing with a store that may refuse the items insert and the delete
   that follows it. *)
InitRxFaults == InitRx

NextRxFaults ==
  \/ deliver
  \/ \E r \in Reqs :
    \/ createPrescription_doctor(r)
    \/ createPrescription_consultation(r)
    \/ createPrescription_existing(r)
    \/ createPrescription_medicines(r)
    \/ createPrescription_insert(r)
    \/ createPrescription_items(r)
    \/ createPrescription_items_fails(r)
    \/ createPrescription_rollback(r)
    \/ createPrescription_rollback_fails(r)

SpecRxFaults == InitRxFaults /\ [][NextRxFaults]_vars

(* Updating and deleting the slots of two doctors: the first doctor's slot in
   any status (a booked one with its consultation), the second doctor's
   available. *)
InitOwnership ==
  /\ InitCommon
  /\ \E st \in AvailabilityStatus :
       /\ aavailability_slots =
            {[TheSlot EXCEPT !.status = st],
             [id |-> 2, doctor_id |-> "d2", slot_date |-> 1, start_time |-> 0,
              end_time |-> 1, status |-> "available"]}
       /\ aconsultations =
            IF st = "booked"
            THEN {[id |-> 1, patient_id |-> "p1", doctor_id |-> "d1", slot_id |-> 1,
                   status |-> "scheduled"]}
            ELSE {}
       /\ consSeq = IF st = "booked" THEN 1 ELSE 0
  /\ slotSeq = 2
  /\ apayments = {}
  /\ aprescriptions = {}
  /\ rxSeq = 0
  /\ aprescription_items = {}
  /\ amedicines = {}
  /\ medSeq = 0
  /\ now = slotDateTime(TheSlot) - 1

NextOwnership ==
  \/ deliver
  \/ \E r \in Reqs :
    \/ updateSlot_load(r)
    \/ updateSlot_write(r)
    \/ deleteSlot_load(r)
    \/ deleteSlot_write(r)

SpecOwnership == InitOwnership /\ [][NextOwnership]_vars

(* Booking on a store whose writes may fail: the slot of the booking
   lifecycle and a second slot of the same doctor that is blocked. *)
InitBooking ==
  /\ InitCommon
  /\ aavailability_slots =
       {TheSlot,
        [id |-> 2, doctor_id |-> "d1", slot_date |-> 2, start_time |-> 0,
         end_time |-> 1, status |-> "blocked"]}
  /\ slotSeq = 2
  /\ aconsultations = {}
  /\ consSeq = 0
  /\ apayments = {}
  /\ aprescriptions = {}
  /\ rxSeq = 0
  /\ aprescription_items = {}
  /\ amedicines = {}
  /\ medSeq = 0
  /\ now \in {slotDateTime(TheSlot) - 1, slotDateTime(TheSlot) + 1}

NextBooking ==
  \/ deliver
  \/ \E r \in Reqs :
    \/ bookConsultation_load(r)
    \/ bookConsultation_insert(r)
    \/ bookConsultation_insert_fails(r)
    \/ bookConsultation_slot(r)
    \/ bookConsultation_slot_fails(r)
    \/ bookConsultation_rollback(r)
    \/ bookConsultation_rollback_fails(r)
    \/ bookConsultation_payment(r)
    \/ bookConsultation_payment_fails(r)

SpecBooking == InitBooking /\ [][NextBooking]_vars

(* Looking for free slots while slots are updated and consultations are
   cancelled: two slots of the first doctor, the earlier one in any status (a
   booked one with its consultation), on the day of the first slot or after. *)
InitBrowse ==
  /\ InitCommon
  /\ \E st \in AvailabilityStatus :
       /\ aavailability_slots =
            {[TheSlot EXCEPT !.status = st],
             [id |-> 2, doctor_id |-> "d1", slot_date |-> 2, start_time |-> 0,
              end_time |-> 1, status |-> "available"]}
       /\ aconsultations =
            IF st = "booked"
            THEN {[id |-> 1, patient_id |-> "p1", doctor_id |-> "d1", slot_id |-> 1,
                   status |-> "scheduled"]}
            ELSE {}
       /\ consSeq = IF st = "booked" THEN 1 ELSE 0
  /\ slotSeq = 2
  /\ apayments = {}
  /\ aprescriptions = {}
  /\ rxSeq = 0
  /\ aprescription_items = {}
  /\ amedicines = {}
  /\ medSeq = 0
  /\ now \in {DayLength, 2 * DayLength}

NextBrowse ==
  \/ deliver
  \/ \E r \in Reqs :
    \/ getAvailableSlots(r)
    \/ updateSlot_load(r)
    \/ updateSlot_write(r)
    \/ cancelConsultation_load(r)
    \/ cancelConsultation_write(r)
    \/ cancelConsultation_free(r)

SpecBrowse == InitBrowse /\ [][NextBrowse]_vars

(* Reading consultations while they are cancelled: one consultation of each
   doctor, of different patients; a doctor-role user without a doctor row. *)
InitRecords ==
  /\ ausers = InitUsers \cup {[id |-> "ud3", role |-> "doctor", is_active |-> TRUE]}
  /\ userSeq = 0
  /\ aprofiles = {[user_id |-> u.id] : u \in ausers}
  /\ adoctors = InitDoctors
  /\ req = [r \in Reqs |-> Idle]
  /\ res = NoRes
  /\ aavailability_slots =
       {[TheSlot EXCEPT !.status = "booked"],
        [id |-> 2, doctor_id |-> "d2", slot_date |-> 1, start_time |-> 0,
         end_time |-> 1, status |-> "booked"]}
  /\ slotSeq = 2
  /\ aconsultations =
       {[id |-> 1, patient_id |-> "p1", doctor_id |-> "d1", slot_id |-> 1,
         status |-> "scheduled"],
        [id |-> 2, patient_id |-> "p2", doctor_id |-> "d2", slot_id |-> 2,
         status |-> "scheduled"]}
  /\ consSeq = 2
  /\ apayments = {}
  /\ aprescriptions = {}
  /\ rxSeq = 0
  /\ aprescription_items = {}
  /\ amedicines = {}
  /\ medSeq = 0
  /\ now = DayLength

NextRecords ==
  \/ deliver
  \/ \E r \in Reqs :
    \/ getMyConsultations_load(r)
    \/ getMyConsultations_query(r)
    \/ getConsultationById_load(r)
    \/ getConsultationById_doctor(r)
    \/ cancelConsultation_load(r)
    \/ cancelConsultation_write(r)
    \/ cancelConsultation_free(r)

SpecRecords == InitRecords /\ [][NextRecords]_vars

(* Updating and cancelling the consultations of two doctors and two patients. *)
InitConsultations == InitRecords

NextConsultations ==
  \/ deliver
  \/ \E r \in Reqs :
    \/ updateConsultation_load(r)
    \/ updateConsultation_write(r)
    \/ updateConsultation_free(r)
    \/ cancelConsultation_load(r)
    \/ cancelConsultation_write(r)
    \/ cancelConsultation_free(r)

SpecConsultations == InitConsultations /\ [][NextConsultations]_vars

(* The medicine catalog: two medicines, the first one prescribed; the users
   and a deactivated administrator. *)
InitCatalog ==
  /\ ausers = InitUsers \cup {[id |-> "adx", role |-> "admin", is_active |-> FALSE]}
  /\ userSeq = 0
  /\ aprofiles = {[user_id |-> u.id] : u \in ausers}
  /\ adoctors = InitDoctors
  /\ req = [r \in Reqs |-> Idle]
  /\ res = NoRes
  /\ aavailability_slots = {[TheSlot EXCEPT !.status = "booked"]}
  /\ slotSeq = 1
  /\ aconsultations =
       {[id |-> 1, patient_id |-> "p1", doctor_id |-> "d1", slot_id |-> 1,
         status |-> "completed"]}
  /\ consSeq = 1
  /\ apayments = {}
  /\ aprescriptions =
       {[id |-> 1, consultation_id |-> 1, doctor_id |-> "d1", patient_id |-> "p1"]}
  /\ rxSeq = 1
  /\ aprescription_items = {[prescription_id |-> 1, n |-> 1, medicine_id |-> 1]}
  /\ amedicines = {[id |-> 1, name |-> "a", in_stock |-> TRUE],
                   [id |-> 2, name |-> "b", in_stock |-> TRUE]}
  /\ medSeq = 2
  /\ now = slotDateTime(TheSlot)

NextCatalog ==
  \/ deliver
  \/ \E r \in Reqs :
    \/ createMedicine_check(r)
    \/ createMedicine_insert(r)
    \/ updateMedicine_load(r)
    \/ updateMedicine_write(r)
    \/ deleteMedicine_check(r)
    \/ deleteMedicine_delete(r)

SpecCatalog == InitCatalog /\ [][NextCatalog]_vars

(* Any handler behind asyncHandler. *)
InitErrors == Init

NextErrors ==
  \/ deliver
  \/ \E r \in Reqs :
    \/ asyncHandler(r)
    \/ next(r)

SpecErrors == InitErrors /\ [][NextErrors]_vars

(* Doctor profiles: the first doctor has one, the second has none yet. *)
InitDoctorProfiles ==
  /\ ausers = InitUsers
  /\ userSeq = 0
  /\ aprofiles = {[user_id |-> u.id] : u \in InitUsers}
  /\ adoctors = {[id |-> "d1", user_id |-> "ud1", registration_number |-> "r1",
                  is_verified |-> FALSE, bio |-> ""]}
  /\ req = [r \in Reqs |-> Idle]
  /\ res = NoRes
  /\ aavailability_slots = {}
  /\ slotSeq = 0
  /\ aconsultations = {}
  /\ consSeq = 0
  /\ apayments = {}
  /\ aprescriptions = {}
  /\ rxSeq = 0
  /\ aprescription_items = {}
  /\ amedicines = {}
  /\ medSeq = 0
  /\ now = 0

NextDoctors ==
  \/ deliver
  \/ \E r \in Reqs :
    \/ createDoctorProfile_user(r)
    \/ createDoctorProfile_existing(r)
    \/ createDoctorProfile_registration(r)
    \/ createDoctorProfile_insert(r)

SpecDoctors == InitDoctorProfiles /\ [][NextDoctors]_vars

(* Doctor profiles with the routes that update and verify them. *)
InitVerify == InitDoctorProfiles

NextVerify ==
  \/ deliver
  \/ \E r \in Reqs :
    \/ createDoctorProfile_user(r)
    \/ createDoctorProfile_existing(r)
    \/ createDoctorProfile_registration(r)
    \/ createDoctorProfile_insert(r)
    \/ updateDoctorProfile_load(r)
    \/ updateDoctorProfile_write(r)
    \/ verifyDoctor(r)

SpecVerify == InitVerify /\ [][NextVerify]_vars

(* Accounts: an active patient and a deactivated one, both with password pw1. *)
InitAccounts ==
  {[id |-> "p1", email |-> "p1@", password_hash |-> hash("pw1"), role |-> "user",
    is_active |-> TRUE],
   [id |-> "px", email |-> "px@", password_hash |-> hash("pw1"), role |-> "user",
    is_active |-> FALSE]}

InitAuth ==
  /\ ausers = InitAccounts
  /\ userSeq = 0
  /\ aprofiles = {[user_id |-> u.id] : u \in InitAccounts}
  /\ adoctors = {}
  /\ req = [r \in Reqs |-> Idle]
  /\ res = NoRes
  /\ aavailability_slots = {}
  /\ slotSeq = 0
  /\ aconsultations = {}
  /\ consSeq = 0
  /\ apayments = {}
  /\ aprescriptions = {}
  /\ rxSeq = 0
  /\ aprescription_items = {}
  /\ amedicines = {}
  /\ medSeq = 0
  /\ now = 0

NextAuth ==
  \/ deliver
  \/ \E r \in Reqs :
    \/ register_check(r)
    \/ register_user(r)
    \/ register_user_refused(r)
    \/ register_profile(r)
    \/ login_find(r)
    \/ login_touch(r)

SpecAuth == InitAuth /\ [][NextAuth]_vars

(* Registration with a store that may refuse the profile insert and the
   delete that follows it. *)
InitRegister == InitAuth

NextRegister ==
  \/ deliver
  \/ \E r \in Reqs :
    \/ register_check(r)
    \/ register_user(r)
    \/ register_user_refused(r)
    \/ register_profile(r)
    \/ register_profile_fails(r)
    \/ register_rollback(r)
    \/ register_rollback_fails(r)

SpecRegister == InitRegister /\ [][NextRegister]_vars

(* The auth routes on accounts that include an administrator. *)
AdminAccount ==
  [id |-> "adm", email |-> "adm@", password_hash |-> hash("pw1"), role |-> "admin",
   is_active |-> TRUE]

InitRoles ==
  /\ ausers = InitAccounts \cup {AdminAccount}
  /\ userSeq = 0
  /\ aprofiles = {[user_id |-> u.id] : u \in InitAccounts \cup {AdminAccount}}
  /\ adoctors = {}
  /\ req = [r \in Reqs |-> Idle]
  /\ res = NoRes
  /\ aavailability_slots = {}
  /\ slotSeq = 0
  /\ aconsultations = {}
  /\ consSeq = 0
  /\ apayments = {}
  /\ aprescriptions = {}
  /\ rxSeq = 0
  /\ aprescription_items = {}
  /\ amedicines = {}
  /\ medSeq = 0
  /\ now = 0

NextRoles ==
  \/ deliver
  \/ \E r \in Reqs :
    \/ register_check(r)
    \/ register_user(r)
    \/ register_user_refused(r)
    \/ register_profile(r)
    \/ register_profile_fails(r)
    \/ register_rollback(r)
    \/ register_rollback_fails(r)
    \/ login_find(r)
    \/ login_touch(r)

SpecRoles == InitRoles /\ [][NextRoles]_vars

(* ===================== slot management: properties ==================== *)
\* [s1,e1) and [s2,e2) have a point in common
Intersect(s1, e1, s2, e2) == s1 < e2 /\ s2 < e1

\* C1: for every doctor and date, no two slots whose status is available or
\* booked have overlapping [start,end) intervals, in every state reachable by
\* interleavings of createSlot and updateSlot requests.
C1_NoOverlappingSlots ==
  \A s, t \in aavailability_slots :
    (/\ s.id # t.id
     /\ s.doctor_id = t.doctor_id
     /\ s.slot_date = t.slot_date
     /\ s.status \in {"available", "booked"}
     /\ t.status \in {"available", "booked"})
    => ~Intersect(s.start_time, s.end_time, t.start_time, t.end_time)

\* the slots of the doctor on the date of a createSlot body that the body's
\* [startTime,endTime) intersects
Clashing(doctorId, body) ==
  {s \in aavailability_slots :
     /\ s.doctor_id = doctorId
     /\ s.slot_date = body.slotDate
     /\ Intersect(s.start_time, s.end_time, body.startTime, body.endTime)}

\* C2: an interval that only touches an existing slot of the doctor at its
\* boundary is accepted: createSlot answers Conflict only for a body that
\* properly intersects an existing slot of the doctor on that date.
C2_BoundaryAdjacentAccepted ==
  (res.op = "createSlot" /\ res.status = 409)
    => Clashing(res.what.doctor, res.what.body) # {}

\* C3: createSlot answers Conflict exactly when an existing slot of the doctor
\* on the date overlaps [start,end) (and then inserts nothing); otherwise it
\* inserts exactly one slot, for that doctor, with status available.
C3_ConflictOnlyOnOverlap ==
  /\ (res.op = "createSlot" /\ res.status = 409)
       => Clashing(res.what.doctor, res.what.body) # {}
  /\ (res.op = "createSlot" /\ res.status = 201)
       => /\ Cardinality(ById(aavailability_slots, res.what.id)) = 1
          /\ \A s \in ById(aavailability_slots, res.what.id) : s.status = "available"

(* ==================== booking lifecycle: properties =================== *)
\* the slot a booking may take: available, of the requested doctor, not started
Bookable(slotId, doctorId) ==
  {s \in aavailability_slots :
     /\ s.id = slotId
     /\ s.status = "available"
     /\ s.doctor_id = doctorId
     /\ slotDateTime(s) >= now}

\* C4: bookConsultation by patient P on a slot S that is available, belongs to
\* the requested doctor and starts in the future is accepted, creates exactly
\* one consultation (scheduled, patient P, that doctor, slot S) and then sets S
\* to booked; a booking is accepted for no other slot.
C4_BookingStep(r) ==
  /\ (req[r].pc = "idle" /\ req'[r].pc = "book_insert")
       => /\ Bookable(req'[r].slotId, req'[r].doctorId) # {}
          /\ RoleOf(req'[r].user) = "user"
          /\ UNCHANGED <<slotTables, consTables>>
  /\ (req[r].pc = "book_insert" /\ req'[r].pc = "book_slot")
       => /\ aconsultations' = aconsultations \cup
                {[id |-> req'[r].cid, patient_id |-> req[r].user,
                  doctor_id |-> req[r].doctorId, slot_id |-> req[r].slotId,
                  status |-> "scheduled"]}
          /\ Cardinality(aconsultations') = Cardinality(aconsultations) + 1
          /\ UNCHANGED slotTables
  /\ (req[r].pc = "book_slot" /\ req'[r].pc = "book_payment")
       => /\ \A s \in ById(aavailability_slots', req[r].slotId) : s.status = "booked"
          /\ \A s \in aavailability_slots :
               s.id # req[r].slotId => s \in aavailability_slots'
          /\ Cardinality(aavailability_slots') = Cardinality(aavailability_slots)
          /\ UNCHANGED consTables
  /\ (req[r].pc = "book_payment" /\ req'[r].pc = "idle")
       => /\ res'.op = "bookConsultation" /\ res'.status = 201
          /\ UNCHANGED <<slotTables, aconsultations>>

C4_BookingNotRefused ==
  /\ (res = NoRes /\ res'.op = "bookConsultation" /\ res'.status = 404)
       => ById(aavailability_slots, res'.what.slotId) = {}
  /\ (res = NoRes /\ res'.op = "bookConsultation" /\ res'.status = 400)
       => Bookable(res'.what.slotId, res'.what.doctorId) = {}

C4_BookingCreatesOne ==
  [][C4_BookingNotRefused /\ \A r \in Reqs : C4_BookingStep(r)]_vars

C4_Witness ==
  /\ res.op = "bookConsultation" /\ res.status = 201
  /\ \E s \in ById(aavailability_slots, res.what.slotId) : s.status = "booked"
  /\ \E c \in ById(aconsultations, res.what.cid) :
       /\ c.status = "scheduled" /\ c.slot_id = res.what.slotId
       /\ c.patient_id = "p1" /\ c.doctor_id = "d1"
  /\ Cardinality(aconsultations) = 1

Holders(slotId) ==
  {c \in aconsultations : c.slot_id = slotId /\ c.status # "cancelled"}

\* C6: in every state reachable by interleavings of bookConsultation,
\* cancelConsultation, updateConsultation, updateSlot and deleteSlot, every
\* booked slot is referenced by exactly one consultation that is not cancelled.
C6_BookedSlotHasOneConsultation ==
  \A s \in aavailability_slots :
    s.status = "booked" => Cardinality(Holders(s.id)) = 1

Terminal == {"completed", "cancelled"}

\* C8: a cancellation (cancelConsultation, or updateConsultation with status
\* cancelled) is accepted for no consultation whose status is completed or
\* cancelled, and a cancelConsultation on such a consultation is answered 400
\* with no change.
C8_TerminalNotCancelledAgain ==
  [][/\ \A r \in Reqs :
          /\ (req[r].pc = "idle" /\ req'[r].pc = "cancel_write")
               => \A c \in ById(aconsultations, req'[r].cid) : c.status \notin Terminal
          /\ (req[r].pc = "updcons_write" /\ req'[r].pc = "updcons_free")
               => \A c \in ById(aconsultations, req[r].cid) : c.status \notin Terminal
     /\ (res = NoRes /\ res'.op = "cancelConsultation" /\ res'.status = 400)
          => /\ \E c \in ById(aconsultations, res'.what.cid) : c.status \in Terminal
             /\ UNCHANGED <<slotTables, consTables>>]_vars

\* states: scheduled -> ongoing -> completed, scheduled|ongoing -> cancelled,
\* -> no_show
Edges ==
  {<<"scheduled", "ongoing">>, <<"ongoing", "completed">>,
   <<"scheduled", "cancelled">>, <<"ongoing", "cancelled">>,
   <<"scheduled", "no_show">>, <<"ongoing", "no_show">>}

\* C9: every change of a consultation's status follows one of the edges, a new
\* consultation starts scheduled, and the status of a completed, cancelled or
\* no_show consultation never changes.
C9_StatusFollowsEdges ==
  [][\A d \in aconsultations' :
       IF ById(aconsultations, d.id) = {} THEN d.status = "scheduled"
       ELSE \A c \in ById(aconsultations, d.id) :
              c.status # d.status => <<c.status, d.status>> \in Edges]_vars

(* ======================= prescribing: properties ====================== *)
InStock(items) ==
  \A i \in 1..Len(items) : \E m \in amedicines : m.id = items[i] /\ m.in_stock

\* C10: createPrescription goes on past its medicine check only when every
\* referenced medicine is in stock, its 400 for an out-of-stock medicine writes
\* no prescription and no item, and every item created references a medicine
\* that is in stock when the prescription is inserted, also when
\* updateMedicineStock requests interleave.
C10_ItemsInStock ==
  [][\A r \in Reqs :
       /\ (req[r].pc = "rx_medicines" /\ req'[r].pc = "rx_insert")
            => InStock(req'[r].items)
       /\ (req[r].pc = "rx_medicines" /\ req'[r].pc = "idle" /\ res'.status = 400)
            => /\ ~InStock(res'.what.items)
               /\ UNCHANGED <<aprescriptions, aprescription_items>>
       /\ (req[r].pc = "rx_insert" /\ req'[r].pc = "rx_items")
            => InStock(req[r].items)]_vars

Prescribable == {"ongoing", "completed"}

\* C11: createPrescription goes on past its consultation check only for a
\* consultation whose status is ongoing or completed; for the caller's own
\* consultation in scheduled, cancelled or no_show it answers 400 and writes
\* nothing; every prescription belongs to an ongoing or completed consultation.
C11_OnlyOngoingOrCompleted ==
  [][/\ \A r \in Reqs :
          /\ (req[r].pc = "rx_consultation" /\ req'[r].pc = "rx_existing")
               => \E c \in ById(aconsultations, req'[r].cid) : c.status \in Prescribable
          /\ (/\ req[r].pc = "rx_consultation" /\ req'[r].pc = "idle"
              /\ res'.status \in {400, 403})
               => /\ UNCHANGED <<aprescriptions, aprescription_items, consTables>>
                  /\ \A c \in ById(aconsultations, res'.what.cid) :
                       res'.status = 400 <=>
                         (c.doctor_id = res'.what.doctorId /\ c.status \notin Prescribable)
     /\ \A p \in aprescriptions' :
          \E c \in ById(aconsultations', p.consultation_id) : c.status \in Prescribable]_vars

C11_Witness ==
  /\ res.op = "createPrescription" /\ res.status = 400
  /\ "cid" \in DOMAIN res.what
  /\ \E c \in ById(aconsultations, res.what.cid) : c.status = "no_show"
  /\ \E p \in aprescriptions : p.consultation_id # res.what.cid

\* C12: in every state reachable by interleavings of createPrescription
\* requests at most one prescription exists per consultation, and a request is
\* answered 409 only for a consultation that has a prescription.
C12_OnePrescriptionPerConsultation ==
  /\ \A p, q \in aprescriptions : p.consultation_id = q.consultation_id => p.id = q.id
  /\ (res.op = "createPrescription" /\ res.status = 409)
       => \E p \in aprescriptions : p.consultation_id = res.what.cid

(* ========================= accounts: properties ======================= *)
\* C13: a register with an email that a user has is answered 409, also when
\* two registrations with one email run concurrently, so no two users have the
\* same email; register answers 409 for no other email; every profile belongs
\* to a user.
C13_DuplicateEmailConflicts ==
  /\ \A u, v \in ausers : u.email = v.email => u.id = v.id
  /\ (res.op = "register" /\ res.status \in {409, 500})
       => res.status = 409 /\ ByEmail(res.what.email) # {}
  /\ \A p \in aprofiles : ById(ausers, p.user_id) # {}

\* the email of a login belongs to a user with that password
GoodCredentials(body) ==
  \E u \in ByEmail(body.email) : compare(body.password, u.password_hash)

\* C14: login with a wrong password, like login with an unknown email, is
\* answered 401 with the one message, whether the account is active or
\* deactivated.
C14_WrongCredentialsAlike ==
  (res.op = "login" /\ ~GoodCredentials(res.what))
    => res.status = 401 /\ res.what.message = InvalidCredentials

\* the operations of the catalog routes, all behind authorize('admin')
AdminOps == {"createMedicine", "updateMedicine", "deleteMedicine"}
Deactivated(t) == verify(t) /\ \E u \in ById(ausers, t.id) : ~u.is_active
Removed(t) == verify(t) /\ ById(ausers, t.id) = {}
\* request r passes the middleware of a catalog route in this step
Admitted(r) == req[r].pc = "idle" /\ req'[r].pc # "idle" /\ req'[r].op \in AdminOps
\* a request to a catalog route is answered in its first step
AnsweredAtOnce == res = NoRes /\ res'.op \in AdminOps /\ req' = req
storeTables == <<idTables, slotTables, consTables, rxTables>>

\* C15: a request whose token was issued to a user that is deactivated by now
\* is answered 403, one whose user has no row any more is answered 401; no
\* such request is admitted to the operation and none changes a table.
C15_StaleTokenRejected ==
  [][ /\ \A r \in Reqs :
           Admitted(r) => ~Deactivated(req'[r].token) /\ ~Removed(req'[r].token)
      /\ AnsweredAtOnce =>
           /\ Deactivated(res'.what.token)
                => res'.status = 403 /\ UNCHANGED storeTables
           /\ Removed(res'.what.token)
                => res'.status = 401 /\ UNCHANGED storeTables ]_vars

C15_Witness ==
  res.op \in AdminOps /\ res.status = 403 /\ Deactivated(res.what.token)

\* the header carries a verified token of an active user whose row has a role in R
Allowed(t, R) ==
  verify(t) /\ \E u \in ById(ausers, t.id) : u.is_active /\ u.role \in R

\* C16: an operation behind authorize('admin') runs only for a verified token
\* of an active user whose row in the store has the role admin, whatever role
\* the token carries; without a verified token the answer is 401, with a role
\* outside the list it is 403, and a rejected request writes nothing.
C16_RoleFromStoreRow ==
  [][ /\ \A r \in Reqs : Admitted(r) => Allowed(req'[r].token, {"admin"})
      /\ AnsweredAtOnce =>
           LET t == res'.what.token
           IN /\ ~verify(t) => res'.status = 401
              /\ (\E u \in ById(ausers, IF verify(t) THEN t.id ELSE "none") :
                     u.is_active /\ u.role # "admin") => res'.status = 403
              /\ res'.status \in {401, 403} => UNCHANGED storeTables
              /\ res'.status \notin {401, 403} => Allowed(t, {"admin"}) ]_vars

C16_Witness ==
  /\ res.op \in AdminOps /\ res.status = 403
  /\ verify(res.what.token) /\ res.what.token.role = "admin"
  /\ \E u \in ById(ausers, res.what.token.id) : u.is_active /\ u.role = "doctor"
\* user u has the role doctor and slot slotId belongs to another doctor
Foreign(u, slotId) ==
  /\ RoleOf(u) = "doctor"
  /\ \E s \in ById(aavailability_slots, slotId) : DoctorUserId(s.doctor_id) # u
\* updateSlot or deleteSlot answers in its first step, about a slot it has loaded
SlotAnsweredAtOnce ==
  /\ res = NoRes /\ req' = req
  /\ res'.op \in {"updateSlot", "deleteSlot"} /\ res'.what # Nothing

\* C17: updateSlot and deleteSlot answer a doctor who is not the owner of the
\* slot with 403 and leave the slot as it is, whatever its status; they answer
\* 403 to nobody else who passed the role check (never to an admin).
C17_OwnershipBeforeStatus ==
  [][ SlotAnsweredAtOnce =>
        /\ Foreign(res'.what.user, res'.what.slotId)
             => res'.status = 403 /\ UNCHANGED slotTables
        /\ res'.status = 403 => Foreign(res'.what.user, res'.what.slotId) ]_vars

\* C18: deleteSlot answers 400 for a slot it reads as booked and leaves it in
\* the table; for an available or blocked slot it refuses only a doctor who
\* is not the owner (403), and otherwise goes on to delete the slot.
C18_BookedSlotNotDeleted ==
  [][ /\ (SlotAnsweredAtOnce /\ res'.op = "deleteSlot") =>
           LET slot == CHOOSE s \in ById(aavailability_slots, res'.what.slotId) : TRUE
           IN /\ slot.status = "booked"
                   => res'.status = 400 /\ UNCHANGED slotTables
              /\ slot.status # "booked"
                   => res'.status = 403 /\ Foreign(res'.what.user, res'.what.slotId)
      /\ \A r \in Reqs :
           /\ (req[r].pc = "idle" /\ req'[r].pc = "deleteSlot_write")
                => \E s \in ById(aavailability_slots, req'[r].slotId) : s.status # "booked"
           /\ (req[r].pc = "deleteSlot_write" /\ req'[r] # req[r])
                => /\ res'.status = 200
                   /\ ById(aavailability_slots', req[r].slotId) = {} ]_vars

C18_Witness ==
  /\ res.op = "deleteSlot" /\ res.status = 400
  /\ \E s \in ById(aavailability_slots, res.what.slotId) : s.status = "booked"
\* C19: no two medicines have the same name, whatever createMedicine and
\* updateMedicine requests have run; createMedicine answers 409 only for a
\* name that a medicine has.
C19_MedicineNamesUnique ==
  /\ \A m, n \in amedicines : m.name = n.name => m.id = n.id
  /\ (res.op = "createMedicine" /\ res.status = 409) => ByName(res.what.name) # {}

\* C20: every prescription item references a medicine that exists, in every
\* interleaving of deleteMedicine and createPrescription; deleteMedicine
\* answers 400 only for a medicine that an item references.
C20_ItemsReferenceMedicines ==
  /\ \A i \in aprescription_items : ById(amedicines, i.medicine_id) # {}
  /\ (res.op = "deleteMedicine" /\ res.status = 400)
       => prescriptionItemsOf(res.what.medicineId) # {}
\* C21: at most one doctor row per user, no two doctor rows with one
\* registration number, every doctor row of a user with the role doctor, in
\* every interleaving of createDoctorProfile requests; the answer 409 is
\* given only for a user that has a doctor row or a number that is in use.
C21_OneDoctorPerUser ==
  /\ \A d, e \in adoctors : d.user_id = e.user_id => d.id = e.id
  /\ \A d, e \in adoctors : d.registration_number = e.registration_number => d.id = e.id
  /\ \A d \in adoctors : \E u \in ById(ausers, d.user_id) : u.role = "doctor"
  /\ (res.op = "createDoctorProfile" /\ res.status = 409)
       => \/ DoctorOfUser(res.what.targetUserId) # {}
          \/ ByRegistration(res.what.registrationNumber) # {}
\* the field that an issue of a payload-validation error names
FieldOf(issue) ==
  IF Len(issue.path) = 1 THEN issue.path[1] ELSE issue.path[1] \o "." \o issue.path[2]

\* C22: a request ends with one response, which carries success: what a
\* handler throws is answered in the step that follows, and the request is
\* over; an AppError gives its status code with success false, a ZodError
\* 400 with one error per issue naming its field, any other error 500, with
\* the message 'Internal server error' in production.
C22_ErrorEnvelope ==
  [][ /\ (res = NoRes /\ res'.op = "fn") => "success" \in DOMAIN res'.what.body
      /\ \A r \in Reqs :
           (req[r].pc = "next" /\ req'[r] # req[r]) =>
                LET err == req[r].err
                    body == res'.what.body
                IN /\ req'[r] = Idle /\ res'.op = "fn" /\ res = NoRes
                   /\ body.success = FALSE
                   /\ err.kind = "AppError" => res'.status = err.statusCode
                   /\ err.kind = "ZodError" =>
                        /\ res'.status = 400
                        /\ Len(body.errors) = Len(err.issues)
                        /\ \A i \in 1..Len(err.issues) :
                             /\ body.errors[i].field = FieldOf(err.issues[i])
                             /\ body.errors[i].message = err.issues[i].message
                   /\ err.kind = "Error" =>
                        /\ res'.status = 500
                        /\ res'.what.env = "production"
                             => body.error = "Internal server error" ]_vars

C22_Witness ==
  /\ res.op = "fn" /\ res.status = 500 /\ "err" \in DOMAIN res.what
  /\ res.what.err.kind = "Error" /\ res.what.env = "production"
  /\ res.what.body.error = "Internal server error"
\* C23: getAvailableSlots answers with exactly the available slots of the
\* doctor from the start date (today without one) to the end date (if given),
\* by date and then start time; no slot in the answer is referenced by a
\* consultation that is not cancelled; the slot that a cancellation has
\* freed is among the available slots of its doctor again.
C23_AvailableSlotsListed ==
  /\ (res.op = "getAvailableSlots" /\ res.status = 200) =>
       LET q == res.what
           data == q.data
           from == IF q.startDate = <<>> THEN now \div DayLength ELSE q.startDate[1]
           expected ==
             {s \in aavailability_slots :
                /\ s.doctor_id = q.doctorId /\ s.status = "available"
                /\ s.slot_date >= from
                /\ q.endDate = <<>> \/ s.slot_date <= q.endDate[1]}
       IN /\ {data[i] : i \in DOMAIN data} = expected
          /\ Len(data) = Cardinality(expected)
          /\ \A i, j \in DOMAIN data :
               i < j => \/ data[i].slot_date < data[j].slot_date
                        \/ /\ data[i].slot_date = data[j].slot_date
                           /\ data[i].start_time <= data[j].start_time
          /\ \A i \in DOMAIN data :
               \A c \in aconsultations : c.slot_id = data[i].id => c.status = "cancelled"
  /\ (res.op = "cancelConsultation" /\ res.status = 200) =>
       \A s \in ById(aavailability_slots, res.what.slot_id) :
         s \in availableSlots(s.doctor_id, <<s.slot_date>>, <<>>)
\* consultation c is one that user u may read: a user-role caller its own as
\* patient, a doctor-role caller those of its doctor row, an admin any
Visible(u, c) ==
  /\ RoleOf(u) = "user" => c.patient_id = u
  /\ RoleOf(u) = "doctor" => \E d \in DoctorOfUser(u) : c.doctor_id = d.id

\* C24: getMyConsultations and getConsultationById give a user-role caller no
\* consultation of another patient and a doctor-role caller none of another
\* doctor; getConsultationById answers 403 for such a consultation.
C24_OwnConsultationsOnly ==
  /\ (res.op = "getMyConsultations" /\ res.status = 200) =>
       \A i \in DOMAIN res.what.data : Visible(res.what.user, res.what.data[i])
  /\ (res.op = "getConsultationById" /\ res.what # Nothing) =>
       /\ res.status = 200 => Visible(res.what.user, res.what.data)
       /\ ~Visible(res.what.user, res.what.data) => res.status = 403

C24_Witness ==
  /\ res.op = "getConsultationById" /\ res.status = 403
  /\ RoleOf(res.what.user) = "user" /\ res.what.data.patient_id # res.what.user
\* C25: a createSlot request that has passed the overlap check inserts its
\* slot whatever was inserted since the check, so two requests that both pass
\* the check before either inserts both insert (the witness: two overlapping
\* slots of one doctor on one date).
C25_CheckedRequestInserts ==
  [][ \A r \in Reqs :
        (req[r].pc = "createSlot_insert" /\ req'[r] # req[r]) =>
          /\ res'.op = "createSlot" /\ res'.status = 201
          /\ NewSlot(slotSeq + 1, req[r].doctor, req[r].body) \in aavailability_slots'
          /\ aavailability_slots \subseteq aavailability_slots' ]_vars

C25_Witness ==
  \E s, t \in aavailability_slots :
    /\ s.id # t.id /\ s.doctor_id = t.doctor_id /\ s.slot_date = t.slot_date
    /\ Intersect(s.start_time, s.end_time, t.start_time, t.end_time)
BookingAnsweredAtOnce ==
  /\ res = NoRes /\ req' = req
  /\ res'.op = "bookConsultation" /\ res'.what # Nothing

C28_FailedBookingRolledBack ==
  [][ \A r \in Reqs :
        /\ (req[r].pc = "book_slot" /\ req'[r].pc = "book_rollback") =>
             UNCHANGED slotTables
        /\ (req[r].pc = "book_rollback" /\ req'[r] # req[r]) =>
             /\ req'[r] = Idle
             /\ res'.op = "bookConsultation" /\ res'.status = 500
             /\ UNCHANGED slotTables
             /\ ById(aconsultations', req[r].cid) = {} ]_vars
\* the payments of a consultation
paymentsOf(payments, cid) == {p \in payments : p.consultation_id = cid}

\* C29: the payment step of a booking answers 201 with the slot booked and the
\* consultation scheduled whether or not the payment insert succeeds; when it
\* succeeds the consultation has exactly one payment, which is pending; no
\* other step creates a payment, and a booking answered 500 leaves none.
C29_PaymentBestEffort ==
  [][ /\ \A r \in Reqs :
           (req[r].pc = "book_payment" /\ req'[r] # req[r]) =>
             /\ req'[r] = Idle
             /\ res'.op = "bookConsultation" /\ res'.status = 201
             /\ \A s \in ById(aavailability_slots', req[r].slotId) : s.status = "booked"
             /\ \E c \in ById(aconsultations', req[r].cid) : c.status = "scheduled"
             /\ \/ apayments' = apayments
                \/ /\ paymentsOf(apayments, req[r].cid) = {}
                   /\ Cardinality(paymentsOf(apayments', req[r].cid)) = 1
                   /\ \A p \in paymentsOf(apayments', req[r].cid) : p.status = "pending"
                   /\ apayments' \ paymentsOf(apayments', req[r].cid) = apayments
      /\ apayments' # apayments =>
           \E r \in Reqs : req[r].pc = "book_payment" /\ req'[r] = Idle
      /\ (res = NoRes /\ res'.op = "bookConsultation" /\ res'.status # 201) =>
           /\ apayments' = apayments
           /\ "cid" \in DOMAIN res'.what => paymentsOf(apayments', res'.what.cid) = {} ]_vars

C29_Witness ==
  /\ res.op = "bookConsultation" /\ res.status = 201
  /\ paymentsOf(apayments, res.what.cid) = {}
  /\ \E s \in ById(aavailability_slots, res.what.slotId) : s.status = "booked"
  /\ \E c \in ById(aconsultations, res.what.cid) : c.status = "scheduled"
\* the users that register has inserted and is no longer working on
Registered ==
  {u \in ausers \ InitAccounts :
     \A r \in Reqs : req[r].pc \in {"register_profile", "register_rollback"}
                        => req[r].user # u.id}

\* C30: when the profile insert of register fails the request is answered 500
\* with no token; once a register is answered, every user that it created has
\* exactly one profile, so the user of a failed profile insert is gone.
C30_NoUserWithoutProfile ==
  /\ \A u \in Registered : Cardinality({p \in aprofiles : p.user_id = u.id}) = 1
  /\ (res.op = "register" /\ res.status = 500) => "token" \notin DOMAIN res.what
(* ======================= prescriptions: properties ==================== *)
\* the items that the medicines step of request r has just looked at
ItemsChecked(r) == IF req'[r] = Idle THEN res'.what.items ELSE req'[r].items

\* C31: the medicines step of createPrescription answers 404 exactly when an
\* item names a medicine id that the catalog does not have; items whose ids
\* all exist, two items with one medicine among them, are not answered 404.
C31_NotFoundOnlyForMissingMedicine ==
  [][ \A r \in Reqs :
        (req[r].pc = "rx_medicines" /\ req'[r] # req[r]) =>
          ((req'[r] = Idle /\ res'.status = 404)
             <=> \E i \in 1..Len(ItemsChecked(r)) :
                   ById(amedicines, ItemsChecked(r)[i]) = {}) ]_vars
\* the prescriptions that no createPrescription request is still working on
Prescribed ==
  {p \in aprescriptions :
     \A r \in Reqs : req[r].pc \in {"rx_items", "rx_rollback"} => req[r].pid # p.id}

\* C32: when the items insert of createPrescription fails the request is
\* answered 500; once a createPrescription is answered, every prescription
\* has its items, so the prescription of a failed items insert is gone.
C32_NoPrescriptionWithoutItems ==
  /\ \A p \in Prescribed : \E i \in aprescription_items : i.prescription_id = p.id
  /\ (res.op = "createPrescription" /\ res.status = 500)
       => \A i \in aprescription_items : i.prescription_id # res.what.pid
\* C33: createPrescription for a consultation of another doctor than the
\* caller is answered 403 and writes nothing, and it goes past that check only
\* for the caller's own consultation; the doctor and the patient of every
\* prescription are those of its consultation.
C33_PrescriberOwnsConsultation ==
  [][ /\ \A r \in Reqs :
           /\ (req[r].pc = "rx_consultation" /\ req'[r].pc = "rx_existing")
                => \E c \in ById(aconsultations, req'[r].cid) :
                     c.doctor_id = req[r].doctorId
           /\ (/\ req[r].pc = "rx_consultation" /\ req'[r].pc = "idle"
               /\ res'.what # Nothing)
                => /\ UNCHANGED <<consTables, rxTables>>
                   /\ \A c \in ById(aconsultations, res'.what.cid) :
                        res'.status = 403 <=> c.doctor_id # req[r].doctorId
      /\ \A p \in aprescriptions' :
           \E c \in ById(aconsultations', p.consultation_id) :
             c.doctor_id = p.doctor_id /\ c.patient_id = p.patient_id ]_vars

C33_Witness ==
  /\ res.op = "createPrescription" /\ res.status = 403
  /\ "cid" \in DOMAIN res.what
  /\ \E c \in ById(aconsultations, res.what.cid) : c.doctor_id # res.what.doctorId
  /\ \A p \in aprescriptions : p.doctor_id # res.what.doctorId
  /\ aprescriptions # {}
(* ======================= consultations: properties ==================== *)
\* the pcs of updateConsultation and cancelConsultation past their checks
ConsultationWrites == {"updcons_write", "updcons_free", "cancel_write", "cancel_free"}

C35_AvailableSlotHasNoActiveConsultation ==
  (\A r \in Reqs : req[r] = Idle) =>
    \A s \in aavailability_slots :
      s.status = "available" =>
        \A c \in aconsultations :
          c.slot_id = s.id => c.status \notin {"scheduled", "ongoing"}
\* C36: in every interleaving of bookConsultation, deleteSlot and updateSlot
\* requests, the slot of every scheduled or ongoing consultation exists.
C36_ActiveConsultationHasSlot ==
  \A c \in aconsultations :
    c.status \in {"scheduled", "ongoing"} => ById(aavailability_slots, c.slot_id) # {}
\* C37: after any sequence of createSlot and updateSlot requests every slot
\* starts before it ends.
C37_SlotStartsBeforeEnd ==
  \A s \in aavailability_slots : s.start_time < s.end_time

C37_Witness ==
  /\ res.op = "updateSlot" /\ "body" \in DOMAIN res.what
  /\ "endTime" \in DOMAIN res.what.body
  /\ res.what.body.endTime <= res.what.body.startTime
  /\ \E s \in ById(aavailability_slots, res.what.slotId) : s.start_time < s.end_time
\* the users with role admin in a table of users
Admins(users) == {u.id : u \in {x \in users : x.role = "admin"}}

\* C38: no step of the auth routes changes the set of admin users or the role
\* of a user, and every user that register inserts has role user or doctor.
C38_AdminsNeverChange ==
  [][ /\ Admins(ausers') = Admins(ausers)
      /\ \A u \in ausers : \A v \in ById(ausers', u.id) : v.role = u.role
      /\ \A v \in ausers' : ById(ausers, v.id) = {} => v.role \in {"user", "doctor"} ]_vars

C38_Witness ==
  /\ res.op = "register" /\ res.status = 400
  /\ Admins(ausers) = {"adm"}
  /\ \E u \in ausers \ (InitAccounts \cup {AdminAccount}) : u.role = "doctor"
(* ======================= doctor profiles: properties ================== *)
\* C39: createDoctorProfile inserts a row that is verified exactly when the
\* caller has role admin, and a caller of another role inserts a row for
\* themselves only; the is_verified of a row changes in no step but a
\* verifyDoctor of a caller with role admin.
C39_VerifiedOnlyByAdmin ==
  [][ /\ \A r \in Reqs :
           (req[r].pc = "doctor_insert" /\ req'[r] # req[r]) =>
             \A d \in adoctors' \ adoctors :
               /\ d.is_verified <=> RoleOf(req[r].user) = "admin"
               /\ RoleOf(req[r].user) # "admin" => d.user_id = req[r].user
      /\ \A d \in adoctors : \A e \in ById(adoctors', d.id) :
           e.is_verified # d.is_verified =>
             /\ res'.op = "verifyDoctor" /\ res'.status = 200
             /\ res'.what.doctorId = d.id
             /\ RoleOf(res'.what.user) = "admin" ]_vars

C39_Witness ==
  /\ res.op = "updateDoctorProfile" /\ res.status = 200
  /\ "is_verified" \in DOMAIN res.what.body
  /\ \E d \in ById(adoctors, res.what.doctorId) :
       d.user_id = "ud2" /\ ~d.is_verified /\ d.bio = "b"
  /\ \E d \in adoctors : d.is_verified
====
